---- MODULE Spec2Model ----
(***************************************************************************)
(* The story-generation polling and local-cache protocol of the client:    *)
(* StoryServiceClass (services/storyService.ts) driven by the thunks of    *)
(* store/slices/storySlice.ts, over an AsyncStorage key holding the        *)
(* serialized list of LocalStoryMetadata.                                  *)
(*                                                                         *)
(* Every await of the source is a yield point.  A call to AsyncStorage     *)
(* (getItem, setItem) and the arrival of an HTTP response are one step     *)
(* each; the synchronous code between two awaits belongs to the step       *)
(* that precedes it.                                                       *)
(***************************************************************************)
EXTENDS Integers, Sequences, FiniteSets, TLC

\* ------------------------------------------------------------------ bounds
\* the largest scene count a story carried by a status response has
MaxScenes == 2
\* how often one caller invokes getUserStories
MaxLoads == 2
\* how many requests of the story player screen are in flight at once
MaxInflight == 2
\* how many steps of 10 s the clock makes
MaxTicks == 6
\* the largest scene count of a story in a story player
MaxPlayerScenes == 3

\* ------------------------------------------------------- program constants
maxAttempts == 20
\* checkTokenStatus: minimum 30 seconds between checks
debounceMs == 30000

\* ----------------------------------------------------------------- values
Undefined == "undefined"

\* A generation thunk is named by the story_id the server assigns to it:
\* the server assigns distinct ids to distinct requests.
Jobs == {"s1", "s2"}
\* stories of earlier sessions
OldIds == {"s8", "s9"}
Prompts == {"a robot", "a cat"}
\* callers of getUserStories (loadUserStories, refreshStories)
Loaders == {"l1", "l2"}
\* direct callers of the cache operations of the service
Callers == {"o1", "o2"}

VARIABLES
    store,        \* AsyncStorage under STORAGE_KEY: [has, json]
    kvFails,      \* environment: may AsyncStorage calls reject in this run
    pc,           \* per generation thunk: where it is
    prompt,       \* per thunk: the prompt submitted
    gresp,        \* generateStory: `response`, what the generate request brought
    attempt,      \* pollStoryCompletion: loop variable attempt
    reqs,         \* number of checkStoryStatus requests issued so far
    last,         \* classification of the latest status response
    onlyProc,     \* history: every response before the latest was processing
    entry,        \* argument of the pending saveLocalStoryMetadata
    local,        \* `stories`, the list read by the pending cache operation
    after,        \* what the thunk does when the pending cache call returns
    err,          \* the error caught / thrown
    retScenes,    \* number of scenes of the ServerStory returned
    cancelled,    \* environment: the owning view has been unmounted
    generationProgress, \* redux state.generationProgress
    onProgressCalls, \* history: calls of onProgress since the latest status request
    lpc,          \* per getUserStories caller: where it is
    llist,        \* the list handed to saveAllLocalStories
    lresult,      \* what getUserStories returned
    lpath,        \* history: what the list request of this call brought
    lrace,        \* history: a saveAllLocalStories was pending when this call read the cache
    lold,         \* history: the cache contents when saveAllLocalStories was called
    loads,        \* invocations so far
    scrMounted,   \* StoryPlayerScreen is mounted
    scrTimer,     \* the interval held by pollInterval.current is running
    scrDetail,    \* fetchStoryDetails calls whose request is in flight
    scrFetches,   \* interval callbacks whose request is in flight
    scrStory,     \* status of the `story` state ("null": no story)
    scrSawFailed, \* history: a response to the interval callback reported 'failed'
    opc,          \* per direct caller of a cache operation: where it is
    ostory,       \* saveLocalStoryMetadata: argument story
    oid,          \* updateLocalStoryStatus: argument story_id
    ostatus,      \* updateLocalStoryStatus: argument status
    ostories,     \* `stories`: the list read, or the argument of saveAllLocalStories
    okv,          \* history: an AsyncStorage call of the caller's operation rejected
    oresult,      \* history: how the caller's latest operation settled ("none": pending)
    wpc,          \* one invocation of a token-refresh wrapper: where it is
    wrapper,      \* which wrapper: "executeApiCall" or "apiCallWithTokenRefresh"
    wretry,       \* executeApiCall: options.retryOnTokenRefresh
    wrefreshTok,  \* useTokenManager: refreshToken of the closure is set
    wshowAlert,   \* useTokenManager: options.showExpirationAlert
    werror,       \* the error the first apiCall() threw
    wcalls,       \* history: invocations of apiCall
    wrefreshes,   \* history: invocations of refreshAuthToken
    wretryFailed, \* history: the retried apiCall() threw
    walert,       \* the 'Session Expired' alert is up
    wsignOut,     \* history: signOut() has been called
    authToken,    \* the `token` state of the AuthProvider, as the number of its issue
    wcaptured,    \* the `token` the apiCall closure was created with
    wsent,        \* history: the token the latest apiCall() sent (0: none yet)
    now,          \* Date.now(), in ms
    tpc,          \* one checkTokenStatus at a time: where it is
    ttoken,       \* useAuth().token is set
    trefreshTok,  \* useAuth().refreshToken is set
    tshowAlert,   \* options.showExpirationAlert
    lastVerification, \* lastVerificationRef.current
    lastTrip,     \* history: when the latest verify-token request was sent (-1: never)
    prevTrip,     \* history: when the one before it was sent (-1: never)
    talert,       \* the 'Session Expired' alert of handleTokenExpiration is up
    scenes,       \* app/story-player: scenes.length (0: serverStory not loaded)
    currentSceneIndex, \* app/story-player: the scene pointer
    sound,        \* app/story-player: the Sound created last and its callback
    lastEvent,    \* history: the latest event of app/story-player
    prevIndex,    \* history: currentSceneIndex before that event
    plScenes,     \* StoryPlayerScreen: story.scenes.length (0: story not loaded)
    currentScene, \* StoryPlayerScreen: the scene pointer
    plSound,      \* StoryPlayerScreen: the scene of the `sound` state (-1: null)
    plLoading,    \* StoryPlayerScreen: scenes whose loadAudio is at createAsync
    plLoaded,     \* StoryPlayerScreen: scenes whose Sound exists and is not unloaded
    plPlaying,    \* StoryPlayerScreen: scenes whose Sound is playing
    audioLoading, \* StoryPlayerScreen: the audioLoading state
    plEvent,      \* history: the latest event of StoryPlayerScreen
    plPrev,       \* history: currentScene before that event
    plFin,        \* history: the scene whose Sound reported didJustFinish last
    plStale,      \* StoryPlayerScreen: scenes whose Sound left the `sound` state and
                  \* is loaded until the cleanup of the [sound] effect has unloaded it
    stateStories, \* story slice: state.stories
    stateError,   \* story slice: state.error
    isLoadingStories, \* story slice: state.isLoadingStories
    lthunk,       \* per caller of getUserStories: the thunk that awaits it
    refreshAlert, \* LibraryScreen: the 'Refresh Failed' alert is up
    rPath,        \* history: how the list request of the refresh settled last went
    rBefore,      \* history: state.stories before that refresh settled
    token,        \* AuthProvider: the token state
    refreshToken, \* AuthProvider: the refreshToken state
    user,         \* AuthProvider: the user state
    stored,       \* AsyncStorage: AUTH_TOKEN, 'refresh_token' and USER_PROFILE
    signInPc,     \* AuthProvider: where the signIn in progress is
    signInArg,    \* AuthProvider: signInResponse.refresh_token || null
    signOutPc,    \* AuthProvider: where the signOut in progress is
    refreshPc,    \* AuthProvider: where the refreshAuthToken in progress is
    refreshArg,   \* AuthProvider: response.refresh_token of that refresh
    signedOut,    \* history: a signOut has completed, no signIn has succeeded since
    refreshFailed, \* history: a refresh has failed, no signIn has succeeded since
    isAuthenticated, \* auth slice: state.isAuthenticated
    authUser,     \* auth slice: state.user
    firebase_token, \* auth slice: state.firebase_token
    isLoading,    \* auth slice: state.isLoading
    authError,    \* auth slice: state.error
    pending,      \* auth slice: the thunks dispatched and not settled
    updateHasToken, \* updateUserProfile in flight: getState() gave it a token
    lastAction    \* history: the type of the auth action reduced last

jobVars == <<pc, prompt, gresp, attempt, reqs, last, onlyProc, entry, local, after,
             err, retScenes, generationProgress, onProgressCalls>>
loaderVars == <<lpc, llist, lresult, lpath, lrace, lold, loads>>
screenVars == <<scrMounted, scrTimer, scrDetail, scrFetches, scrStory, scrSawFailed>>
cacheVars == <<opc, ostory, oid, ostatus, ostories, okv, oresult>>
wrapVars == <<wpc, wrapper, wretry, wrefreshTok, wshowAlert, werror, wcalls, wrefreshes,
              wretryFailed, walert, wsignOut, authToken, wcaptured, wsent>>
\* the hooks and screens besides the story player's poller
tokVars == <<now, tpc, ttoken, trefreshTok, tshowAlert, lastVerification, lastTrip,
             prevTrip, talert>>
\* the two story players
appVars == <<scenes, currentSceneIndex, sound, lastEvent, prevIndex>>
plVars == <<plScenes, currentScene, plSound, plLoading, plLoaded, plPlaying,
            audioLoading, plEvent, plPrev, plFin, plStale>>
playerVars == <<appVars, plVars>>
\* the story slice of the store and the library screen's refresh
sliceVars == <<stateStories, stateError, isLoadingStories, lthunk, refreshAlert,
               rPath, rBefore>>
\* the redux slices and the auth provider
\* the AuthProvider and the keys it persists
providerVars == <<token, refreshToken, user, stored, signInPc, signInArg, signOutPc,
                  refreshPc, refreshArg, signedOut, refreshFailed>>
\* the auth slice of the store and its thunks
authVars == <<isAuthenticated, authUser, firebase_token, isLoading, authError, pending,
              updateHasToken, lastAction>>
stateVars == <<sliceVars, providerVars, authVars>>
hookVars == <<wrapVars, tokVars, playerVars, stateVars>>
\* the program's own state: service, thunks, getUserStories
serviceVars == <<store, kvFails, jobVars, cancelled, loaderVars>>
\* everything but the auth slice
notAuthVars == <<serviceVars, screenVars, cacheVars, wrapVars, tokVars, playerVars,
                 sliceVars, providerVars>>
\* the state outside the thunks and getUserStories
otherVars == <<screenVars, cacheVars, hookVars>>
vars == <<store, kvFails, jobVars, cancelled, loaderVars, otherVars>>

\* ------------------------------------------------------- LocalStoryMetadata
Meta(id, title, description, generatedTime, duration, status, thumbnail) ==
    [id |-> id, title |-> title, description |-> description,
     generatedTime |-> generatedTime, duration |-> duration,
     status |-> status, thumbnail |-> thumbnail]

\* e.thumbnail as JavaScript reads it: a key that is absent reads undefined
Thumb(e) == IF "thumbnail" \in DOMAIN e THEN e.thumbnail ELSE Undefined

\* JSON.stringify of one object drops the keys whose value is undefined
StringifyObj(e) ==
    IF Thumb(e) = Undefined
    THEN [id |-> e.id, title |-> e.title, description |-> e.description,
          generatedTime |-> e.generatedTime, duration |-> e.duration,
          status |-> e.status]
    ELSE e

\* JSON.stringify(stories): the serialized list
JsonStringify(stories) == [i \in 1..Len(stories) |-> StringifyObj(stories[i])]

\* JSON.parse(storiesJson): the objects as serialized, keys that were dropped stay absent
JsonParse(json) == json

NoItem == [has |-> FALSE, json |-> <<>>]
Item(json) == [has |-> TRUE, json |-> json]

\* AsyncStorage outcomes of one call: it resolves, or (kvFails) it may reject
KvOutcomes == IF kvFails THEN {TRUE, FALSE} ELSE {TRUE}

\* getLocalStories, given whether getItem resolved
GetLocalStories(ok) ==
    IF ok /\ store.has THEN JsonParse(store.json) ELSE <<>>

\* a findIndex that looks at the first element only
FindIndexFirstOnly(stories, id) ==
    IF Len(stories) > 0 /\ stories[1].id = id THEN 1 ELSE 0

\* stories.findIndex(s => s.id === id); 0 stands for -1 (indices are 1-based here)
FindIndex(stories, id) ==
    IF \E i \in 1..Len(stories) : stories[i].id = id
    THEN CHOOSE i \in 1..Len(stories) :
            /\ stories[i].id = id
            /\ \A k \in 1..(i - 1) : stories[k].id # id
    ELSE 0

\* a saveLocalStoryMetadata that always unshifts
UpsertUnshift(stories, story) == <<story>> \o stories

\* a saveLocalStoryMetadata that moves the story to the front
UpsertMoveToFront(stories, story) ==
    <<story>> \o SelectSeq(stories, LAMBDA s : s.id # story.id)

\* the list saveLocalStoryMetadata writes: replace in place, else unshift
Upsert(stories, story) ==
    IF FindIndex(stories, story.id) > 0
    THEN [stories EXCEPT ![FindIndex(stories, story.id)] = story]
    ELSE <<story>> \o stories

\* an updateLocalStoryStatus that writes the list back as it read it
PatchStatusLost(stories, id, status) == stories

\* an updateLocalStoryStatus that sets the status of every story
PatchStatusAll(stories, id, status) ==
    [i \in 1..Len(stories) |-> [stories[i] EXCEPT !.status = status]]

\* the list updateLocalStoryStatus writes when stories.find hits
PatchStatus(stories, id, status) ==
    [stories EXCEPT ![FindIndex(stories, id)].status = status]

\* a cache operation without its try/catch: a rejected AsyncStorage call
\* rejects the operation
Uncaught(failed) == IF failed THEN "rejected" ELSE "resolved"

\* how a cache operation settles, given whether one of its AsyncStorage calls
\* rejected: the catch block logs the error and the operation returns
Caught(failed) == "resolved"

\* AsyncStorage.setItem(STORAGE_KEY, JSON.stringify(stories)), given whether it resolved
SetItem(stories, ok) ==
    IF ok THEN Item(JsonStringify(stories)) ELSE store

\* ------------------------------------------------------- server responses
\* POST /stories/generate as makeRequest hands it on: it throws (transport
\* error, non-2xx) or returns a body
GenerateResponses ==
    {[kind |-> "error", success |-> FALSE, hasId |-> FALSE]}
    \cup {[kind |-> "body", success |-> s, hasId |-> h] : s \in BOOLEAN, h \in BOOLEAN}

\* before the generate request has settled
NoResponse == [kind |-> "none", success |-> FALSE, hasId |-> FALSE]

\* GET /stories/fetch/{id}: it throws (kind "unauthorized": the server
\* answered 401) or returns {success, story?, status?}.
\* scenes = -1 stands for a story without a scenes key.
StatusResponses ==
    {[kind |-> k, success |-> FALSE, hasStory |-> FALSE, scenes |-> -1,
      status |-> Undefined] : k \in {"error", "unauthorized"}}
    \cup {[kind |-> "body", success |-> s, hasStory |-> FALSE, scenes |-> -1, status |-> st] :
            s \in BOOLEAN, st \in {Undefined, "processing", "failed"}}
    \cup {[kind |-> "body", success |-> s, hasStory |-> TRUE, scenes |-> n, status |-> st] :
            s \in BOOLEAN, n \in (-1)..MaxScenes, st \in {Undefined, "failed"}}

\* the branch pollStoryCompletion takes on a response
Classify(r) ==
    IF r.kind # "body" THEN "error"
    ELSE IF r.success /\ r.hasStory THEN "completed"
    ELSE IF r.status = "failed" THEN "failed"
    ELSE "processing"

\* convertServerStoryFormat: scenes: serverStory.scenes || []
ConvertScenes(r) == IF r.scenes < 0 THEN 0 ELSE r.scenes

\* the metadata written for a completed story; thumbnail: scenes[0]?.image_url
CompletedMeta(j, r) ==
    Meta(j, "server title", prompt[j], "server time", 7, "completed",
         IF ConvertScenes(r) > 0 THEN "image 1" ELSE Undefined)

\* a placeholder with title and description exchanged
PlaceholderMetaSwapped(j) ==
    Meta(j, prompt[j], "Generating...", "now", 0, "processing", Undefined)

\* the placeholder generateStory writes
PlaceholderMeta(j) ==
    Meta(j, "Generating...", prompt[j], "now", 0, "processing", Undefined)

\* ------------------------------------------------- generateStoryAsync thunk
Running(j) == pc[j] \notin {"idle", "resolved", "rejected"}

\* dispatch(generateStoryAsync(...)): the pending reducer runs and
\* generateStory issues POST /stories/generate
StartGenerate(j, p) ==
    /\ pc[j] = "idle"
    /\ pc' = [pc EXCEPT ![j] = "gen_wait"]
    /\ prompt' = [prompt EXCEPT ![j] = p]
    /\ generationProgress' = "Starting story generation..."
    /\ UNCHANGED <<store, kvFails, gresp, attempt, reqs, last, onlyProc, entry, local,
                   after, err, retScenes, cancelled, loaderVars, otherVars>>
    /\ UNCHANGED onProgressCalls

\* a generateStory that tests response.success alone
GenerateResponseLax(j, r) ==
    /\ pc[j] = "gen_wait"
    /\ gresp' = [gresp EXCEPT ![j] = r]
    /\ IF r.kind = "body" /\ r.success
       THEN /\ pc' = [pc EXCEPT ![j] = "save_read"]
            /\ entry' = [entry EXCEPT ![j] = PlaceholderMeta(j)]
            /\ after' = [after EXCEPT ![j] = "poll"]
            /\ UNCHANGED <<err, generationProgress>>
       ELSE /\ pc' = [pc EXCEPT ![j] = "rejected"]
            /\ err' = [err EXCEPT ![j] = "generate"]
            /\ generationProgress' = ""
            /\ UNCHANGED <<entry, after>>
    /\ UNCHANGED <<store, kvFails, prompt, attempt, reqs, last, onlyProc, local,
                   retScenes, cancelled, loaderVars, otherVars>>
    /\ UNCHANGED onProgressCalls

\* the generate request settles: generateStory saves the placeholder, or throws
GenerateResponse(j, r) ==
    /\ pc[j] = "gen_wait"
    /\ gresp' = [gresp EXCEPT ![j] = r]
    /\ IF r.kind = "body" /\ r.success /\ r.hasId
       THEN /\ pc' = [pc EXCEPT ![j] = "save_read"]
            /\ entry' = [entry EXCEPT ![j] = PlaceholderMeta(j)]
            /\ after' = [after EXCEPT ![j] = "poll"]
            /\ UNCHANGED <<err, generationProgress>>
       ELSE /\ pc' = [pc EXCEPT ![j] = "rejected"]
            /\ err' = [err EXCEPT ![j] = "generate"]
            /\ generationProgress' = ""
            /\ UNCHANGED <<entry, after>>
    /\ UNCHANGED <<store, kvFails, prompt, attempt, reqs, last, onlyProc, local,
                   retScenes, cancelled, loaderVars, otherVars>>
    /\ UNCHANGED onProgressCalls

\* what the thunk does once the pending cache call has returned
Return(j) ==
    CASE after[j] = "poll" ->
            \* generateStory returns; pollStoryCompletion starts its loop
            /\ pc' = [pc EXCEPT ![j] = "poll_req"]
            /\ attempt' = [attempt EXCEPT ![j] = 1]
            /\ UNCHANGED <<after, err, generationProgress>>
      [] after[j] = "resolve" ->
            \* return serverStory; the fulfilled reducer runs
            /\ pc' = [pc EXCEPT ![j] = "resolved"]
            /\ generationProgress' = ""
            /\ UNCHANGED <<after, err, attempt>>
      [] after[j] = "throw_failed" ->
            \* throw new Error('Story generation failed') inside the try:
            \* the catch of the same loop body takes it
            /\ err' = [err EXCEPT ![j] = "failed"]
            /\ IF attempt[j] = maxAttempts
               THEN /\ pc' = [pc EXCEPT ![j] = "upd_read"]
                    /\ after' = [after EXCEPT ![j] = "rethrow"]
               ELSE /\ pc' = [pc EXCEPT ![j] = "sleep"]
                    /\ UNCHANGED after
            /\ UNCHANGED <<attempt, generationProgress>>
      [] after[j] = "rethrow" ->
            \* throw error; the rejected reducer runs
            /\ pc' = [pc EXCEPT ![j] = "rejected"]
            /\ generationProgress' = ""
            /\ UNCHANGED <<after, err, attempt>>
      [] after[j] = "timeout" ->
            \* throw new Error('Story generation timed out')
            /\ pc' = [pc EXCEPT ![j] = "rejected"]
            /\ err' = [err EXCEPT ![j] = "timeout"]
            /\ generationProgress' = ""
            /\ UNCHANGED <<after, attempt>>

\* saveLocalStoryMetadata: const stories = await this.getLocalStories()
SaveRead(j) ==
    /\ pc[j] = "save_read"
    /\ \E ok \in KvOutcomes :
          local' = [local EXCEPT ![j] = GetLocalStories(ok)]
    /\ pc' = [pc EXCEPT ![j] = "save_write"]
    /\ UNCHANGED <<store, kvFails, prompt, gresp, attempt, reqs, last, onlyProc, entry,
                   after, err, retScenes, cancelled, generationProgress, loaderVars, otherVars>>
    /\ UNCHANGED onProgressCalls

\* saveLocalStoryMetadata: await AsyncStorage.setItem(...), then its caller goes on
SaveWrite(j) ==
    /\ pc[j] = "save_write"
    /\ \E ok \in KvOutcomes :
          store' = SetItem(Upsert(local[j], entry[j]), ok)
    /\ Return(j)
    /\ UNCHANGED <<kvFails, prompt, gresp, reqs, last, onlyProc, entry, local,
                   retScenes, cancelled, loaderVars, otherVars>>
    /\ UNCHANGED onProgressCalls

\* the loop body starts: await this.checkStoryStatus(story_id)
PollRequest(j) ==
    /\ pc[j] = "poll_req"
    /\ pc' = [pc EXCEPT ![j] = "poll_wait"]
    /\ reqs' = [reqs EXCEPT ![j] = @ + 1]
    /\ onProgressCalls' = [onProgressCalls EXCEPT ![j] = 0]
    /\ UNCHANGED <<store, kvFails, prompt, gresp, attempt, last, onlyProc, entry, local,
                   after, err, retScenes, cancelled, generationProgress, loaderVars, otherVars>>

\* a loop body that calls onProgress whatever the response
CallsOnProgressAlways(r) == TRUE

\* the loop body calls onProgress in its branch "still processing" and
\* nowhere else
CallsOnProgress(r) == Classify(r) = "processing"

\* the status request settles and the loop body branches on it
PollResponse(j, r) ==
    /\ pc[j] = "poll_wait"
    /\ last' = [last EXCEPT ![j] = Classify(r)]
    /\ onlyProc' = [onlyProc EXCEPT ![j] = @ /\ last[j] \in {"none", "processing"}]
    /\ onProgressCalls' = [onProgressCalls EXCEPT ![j] =
                              IF CallsOnProgress(r) THEN @ + 1 ELSE @]
    /\ CASE Classify(r) = "completed" ->
               /\ entry' = [entry EXCEPT ![j] = CompletedMeta(j, r)]
               /\ retScenes' = [retScenes EXCEPT ![j] = ConvertScenes(r)]
               /\ after' = [after EXCEPT ![j] = "resolve"]
               /\ pc' = [pc EXCEPT ![j] = "save_read"]
               /\ UNCHANGED <<attempt, err, generationProgress>>
         [] Classify(r) = "failed" ->
               /\ after' = [after EXCEPT ![j] = "throw_failed"]
               /\ pc' = [pc EXCEPT ![j] = "upd_read"]
               /\ UNCHANGED <<attempt, err, entry, retScenes, generationProgress>>
         [] Classify(r) = "processing" ->
               \* onProgress?.(response.status || 'processing')
               /\ generationProgress' =
                     (IF r.status = Undefined THEN "processing" ELSE r.status)
               /\ IF attempt[j] < maxAttempts
                  THEN /\ pc' = [pc EXCEPT ![j] = "sleep"]
                       /\ UNCHANGED <<attempt, after>>
                  ELSE \* attempt++ ends the loop: polling timed out
                       /\ attempt' = [attempt EXCEPT ![j] = @ + 1]
                       /\ after' = [after EXCEPT ![j] = "timeout"]
                       /\ pc' = [pc EXCEPT ![j] = "upd_read"]
               /\ UNCHANGED <<err, entry, retScenes>>
         [] Classify(r) = "error" ->
               /\ err' = [err EXCEPT ![j] =
                            IF r.kind = "unauthorized" THEN "unauthorized" ELSE "transport"]
               /\ IF attempt[j] = maxAttempts
                  THEN /\ pc' = [pc EXCEPT ![j] = "upd_read"]
                       /\ after' = [after EXCEPT ![j] = "rethrow"]
                  ELSE /\ pc' = [pc EXCEPT ![j] = "sleep"]
                       /\ UNCHANGED after
               /\ UNCHANGED <<attempt, entry, retScenes, generationProgress>>
    /\ UNCHANGED <<store, kvFails, prompt, gresp, reqs, local, cancelled, loaderVars, otherVars>>

\* a loop that retries without counting the attempt
SleepDoneSameAttempt(j) ==
    /\ pc[j] = "sleep"
    /\ pc' = [pc EXCEPT ![j] = "poll_req"]
    /\ UNCHANGED <<store, kvFails, prompt, gresp, attempt, reqs, last, onlyProc, entry,
                   local, after, err, retScenes, cancelled, generationProgress,
                   loaderVars, otherVars>>
    /\ UNCHANGED onProgressCalls

\* a timer that never fires: the loop stays in its sleep
SleepNeverDone(j) ==
    /\ pc[j] = "sleep"
    /\ UNCHANGED vars

\* setTimeout(resolve, pollInterval) fires; attempt++ and the loop test
SleepDone(j) ==
    /\ pc[j] = "sleep"
    /\ attempt' = [attempt EXCEPT ![j] = @ + 1]
    /\ IF attempt[j] + 1 <= maxAttempts
       THEN /\ pc' = [pc EXCEPT ![j] = "poll_req"]
            /\ UNCHANGED after
       ELSE /\ pc' = [pc EXCEPT ![j] = "upd_read"]
            /\ after' = [after EXCEPT ![j] = "timeout"]
    /\ UNCHANGED <<store, kvFails, prompt, gresp, reqs, last, onlyProc, entry, local,
                   err, retScenes, cancelled, generationProgress, loaderVars, otherVars>>
    /\ UNCHANGED onProgressCalls

\* an updateLocalStoryStatus whose stories.find never hits
UpdReadNoHit(j) ==
    /\ pc[j] = "upd_read"
    /\ \E ok \in KvOutcomes :
          local' = [local EXCEPT ![j] = GetLocalStories(ok)]
    /\ Return(j)
    /\ UNCHANGED <<store, kvFails, prompt, gresp, reqs, last, onlyProc, entry,
                   retScenes, cancelled, loaderVars, otherVars>>
    /\ UNCHANGED onProgressCalls

\* updateLocalStoryStatus(story_id, 'failed'): getLocalStories, stories.find
UpdRead(j) ==
    /\ pc[j] = "upd_read"
    /\ \E ok \in KvOutcomes :
          LET stories == GetLocalStories(ok) IN
          IF FindIndex(stories, j) > 0
          THEN /\ local' = [local EXCEPT ![j] = PatchStatus(stories, j, "failed")]
               /\ pc' = [pc EXCEPT ![j] = "upd_write"]
               /\ UNCHANGED <<attempt, after, err, generationProgress>>
          ELSE /\ local' = [local EXCEPT ![j] = stories]
               /\ Return(j)
    /\ UNCHANGED <<store, kvFails, prompt, gresp, reqs, last, onlyProc, entry,
                   retScenes, cancelled, loaderVars, otherVars>>
    /\ UNCHANGED onProgressCalls

\* updateLocalStoryStatus: await AsyncStorage.setItem(...), then its caller goes on
UpdWrite(j) ==
    /\ pc[j] = "upd_write"
    /\ \E ok \in KvOutcomes :
          store' = SetItem(local[j], ok)
    /\ Return(j)
    /\ UNCHANGED <<kvFails, prompt, gresp, reqs, last, onlyProc, entry, local,
                   retScenes, cancelled, loaderVars, otherVars>>
    /\ UNCHANGED onProgressCalls

\* the view that dispatched the thunk is unmounted while the thunk runs
Unmount(j) ==
    /\ Running(j)
    /\ ~cancelled[j]
    /\ cancelled' = [cancelled EXCEPT ![j] = TRUE]
    /\ UNCHANGED <<store, kvFails, jobVars, loaderVars, otherVars>>

\* ------------------------------------------------------------ getUserStories
\* the server has assigned the id of thunk j
Accepted(j) ==
    /\ pc[j] \notin {"idle", "gen_wait"}
    /\ ~(pc[j] = "rejected" /\ err[j] = "generate")

KnownIds == OldIds \cup {j \in Jobs : Accepted(j)}

\* one story of the list response; the status of a job's story is the server's to tell
Summary(id, status) ==
    [story_id |-> id, title |-> "server title", user_prompt |-> Undefined,
     created_at |-> "server time", total_duration |-> 7, status |-> status,
     thumbnail_url |-> "image 1"]

Summaries ==
    {Summary(id, "completed") : id \in KnownIds \cap OldIds}
    \cup {Summary(id, st) : id \in KnownIds \cap Jobs, st \in {Undefined, "processing"}}

\* response.stories: the stories of the user, each id once, at most two of them
ServerLists ==
    {<<>>} \cup {<<a>> : a \in Summaries}
    \cup {l \in {<<a, b>> : a \in Summaries, b \in Summaries} :
                l[1].story_id # l[2].story_id}

\* GET /stories/list/{token} as makeRequest hands it on
ListFailures == {[kind |-> "error", hasStories |-> FALSE, stories |-> <<>>]}
ListBodies ==
    {[kind |-> "body", hasStories |-> FALSE, stories |-> <<>>]}
    \cup {[kind |-> "body", hasStories |-> TRUE, stories |-> l] : l \in ServerLists}

\* the mapping of getUserStories from a server story to LocalStoryMetadata
MapStory(s) ==
    Meta(s.story_id, s.title,
         IF s.user_prompt = Undefined THEN "" ELSE s.user_prompt,
         s.created_at, s.total_duration,
         IF s.status = Undefined THEN "completed" ELSE s.status,
         s.thumbnail_url)

MapStories(l) == [i \in 1..Len(l) |-> MapStory(l[i])]

Loading(t) == lpc[t] \notin {"idle", "returned"}

\* getUserStories(firebase_token) is called and issues the list request
GetUserStories(t) ==
    /\ ~Loading(t)
    /\ loads[t] < MaxLoads
    /\ loads' = [loads EXCEPT ![t] = @ + 1]
    /\ lpc' = [lpc EXCEPT ![t] = "list_wait"]
    /\ lpath' = [lpath EXCEPT ![t] = "none"]
    /\ lrace' = [lrace EXCEPT ![t] = FALSE]
    /\ llist' = [llist EXCEPT ![t] = <<>>]
    /\ lresult' = [lresult EXCEPT ![t] = <<>>]
    /\ lold' = [lold EXCEPT ![t] = <<>>]

\* a call of getUserStories by the service's own caller
StartLoad(t) ==
    /\ GetUserStories(t)
    /\ UNCHANGED <<store, kvFails, jobVars, cancelled, otherVars>>

\* the list request settles: saveAllLocalStories is called, or the fallback is taken
ListResponse(t, r) ==
    /\ lpc[t] = "list_wait"
    /\ IF r.kind = "body" /\ r.hasStories
       THEN /\ llist' = [llist EXCEPT ![t] = MapStories(r.stories)]
            /\ lold' = [lold EXCEPT ![t] = GetLocalStories(TRUE)]
            /\ lpc' = [lpc EXCEPT ![t] = "all_write"]
            /\ lpath' = [lpath EXCEPT ![t] = "stories"]
       ELSE /\ lpath' = [lpath EXCEPT ![t] =
                            IF r.kind = "error" THEN "failed" ELSE "no stories"]
            /\ lpc' = [lpc EXCEPT ![t] = "fb_read"]
            /\ UNCHANGED <<llist, lold>>
    /\ UNCHANGED <<store, kvFails, jobVars, cancelled, otherVars, lresult, lrace, loads>>

\* a saveAllLocalStories that stores the first entry, then the list
AllWriteTorn(t) ==
    /\ lpc[t] = "all_write"
    /\ IF Len(llist[t]) > 1 /\ store # Item(JsonStringify(<<llist[t][1]>>))
       THEN /\ store' = Item(JsonStringify(<<llist[t][1]>>))
            /\ UNCHANGED <<lresult, lpc>>
       ELSE /\ store' = Item(JsonStringify(llist[t]))
            /\ lresult' = [lresult EXCEPT ![t] = llist[t]]
            /\ lpc' = [lpc EXCEPT ![t] = "returned"]
    /\ UNCHANGED <<kvFails, jobVars, cancelled, otherVars, llist, lpath, lrace, lold, loads>>

\* saveAllLocalStories: await AsyncStorage.setItem(...); return localStories
AllWrite(t) ==
    /\ lpc[t] = "all_write"
    /\ \E ok \in KvOutcomes :
          store' = SetItem(llist[t], ok)
    /\ lresult' = [lresult EXCEPT ![t] = llist[t]]
    /\ lpc' = [lpc EXCEPT ![t] = "returned"]
    /\ UNCHANGED <<kvFails, jobVars, cancelled, otherVars, llist, lpath, lrace, lold, loads>>

\* a fallback that returns no stories
FallbackReadEmpty(t) ==
    /\ lpc[t] = "fb_read"
    /\ lresult' = [lresult EXCEPT ![t] = <<>>]
    /\ lrace' = [lrace EXCEPT ![t] = \E w \in Loaders : lpc[w] = "all_write"]
    /\ lpc' = [lpc EXCEPT ![t] = "returned"]
    /\ UNCHANGED <<store, kvFails, jobVars, cancelled, otherVars, llist, lpath, lold, loads>>

\* return this.getLocalStories()
FallbackRead(t) ==
    /\ lpc[t] = "fb_read"
    /\ \E ok \in KvOutcomes :
          lresult' = [lresult EXCEPT ![t] = GetLocalStories(ok)]
    /\ lrace' = [lrace EXCEPT ![t] = \E w \in Loaders : lpc[w] = "all_write"]
    /\ lpc' = [lpc EXCEPT ![t] = "returned"]
    /\ UNCHANGED <<store, kvFails, jobVars, cancelled, otherVars, llist, lpath, lold, loads>>

\* ------------------------------------------------------------- story slice
Null == "null"
NoThunk == "none"

\* convertLocalToStory
ConvertLocalToStory(l) ==
    [id |-> l.id, title |-> l.title, description |-> l.description,
     content |-> <<"Story about: ", l.description>>,
     generatedTime |-> l.generatedTime, systemPrompt |-> "",
     duration |-> l.duration, status |-> l.status, thumbnail |-> l.thumbnail]

\* localStories.map(convertLocalToStory)
ConvertAll(l) == [i \in 1..Len(l) |-> ConvertLocalToStory(l[i])]

\* refreshStories.fulfilled: state.stories = action.payload
RefreshFulfilled(old, payload) == payload

\* getUserStories catches every failure of its own, so the thunk's promise is
\* rejected only when the call threw
ThunkOutcome(threw) == IF threw THEN "rejected" ELSE "fulfilled"

\* the library screen with no story to show dispatches
\* loadUserStories(firebase_token): the pending reducer, then the call
DispatchLoadUserStories(t) ==
    /\ lthunk[t] = NoThunk
    /\ Len(stateStories) = 0
    /\ GetUserStories(t)
    /\ lthunk' = [lthunk EXCEPT ![t] = "loadUserStories"]
    /\ isLoadingStories' = TRUE
    /\ stateError' = Null
    /\ UNCHANGED <<store, kvFails, jobVars, cancelled, screenVars, cacheVars, wrapVars,
                   tokVars, playerVars, providerVars, authVars, stateStories, refreshAlert, rPath, rBefore>>

\* handleRefresh: dispatch(refreshStories(firebase_token)); the pending reducer
\* changes nothing
HandleRefresh(t) ==
    /\ lthunk[t] = NoThunk
    /\ GetUserStories(t)
    /\ lthunk' = [lthunk EXCEPT ![t] = "refreshStories"]
    /\ refreshAlert' = FALSE
    /\ UNCHANGED <<store, kvFails, jobVars, cancelled, screenVars, cacheVars, wrapVars,
                   tokVars, playerVars, providerVars, authVars, stateStories, stateError, isLoadingStories,
                   rPath, rBefore>>

\* getUserStories has returned to loadUserStories: the fulfilled reducer
LoadUserStoriesSettles(t) ==
    /\ lthunk[t] = "loadUserStories"
    /\ lpc[t] = "returned"
    /\ IF ThunkOutcome(FALSE) = "fulfilled"
       THEN /\ stateStories' = ConvertAll(lresult[t])
            /\ UNCHANGED stateError
       ELSE /\ stateError' = "Failed to load stories"
            /\ UNCHANGED stateStories
    /\ isLoadingStories' = FALSE
    /\ lthunk' = [lthunk EXCEPT ![t] = NoThunk]
    /\ UNCHANGED <<serviceVars, screenVars, cacheVars, wrapVars, tokVars, playerVars, providerVars, authVars,
                   refreshAlert, rPath, rBefore>>

\* getUserStories has returned to refreshStories: the fulfilled reducer, and
\* the unwrap() of handleRefresh
RefreshStoriesSettles(t) ==
    /\ lthunk[t] = "refreshStories"
    /\ lpc[t] = "returned"
    /\ IF ThunkOutcome(FALSE) = "fulfilled"
       THEN /\ stateStories' = RefreshFulfilled(stateStories, ConvertAll(lresult[t]))
            /\ UNCHANGED refreshAlert
       ELSE /\ refreshAlert' = TRUE
            /\ UNCHANGED stateStories
    /\ rPath' = lpath[t]
    /\ rBefore' = stateStories
    /\ lthunk' = [lthunk EXCEPT ![t] = NoThunk]
    /\ UNCHANGED <<serviceVars, screenVars, cacheVars, wrapVars, tokVars, playerVars, providerVars, authVars,
                   stateError, isLoadingStories>>

\* loadStoryDetails.rejected: state.error = action.payload
LoadStoryDetailsRejected ==
    /\ stateError # "Failed to load story details"
    /\ stateError' = "Failed to load story details"
    /\ isLoadingStories' = FALSE
    /\ UNCHANGED <<serviceVars, screenVars, cacheVars, wrapVars, tokVars, playerVars, providerVars, authVars,
                   stateStories, lthunk, refreshAlert, rPath, rBefore>>

\* ------------------------------------------------------------ AuthProvider
NoAuth == [token |-> Null, refresh |-> Null, user |-> Null]

\* what the refresh endpoint answers: a new token with or without a new
\* refresh token, or a failure (an error, or success: false)
RefreshResponses ==
    {[ok |-> TRUE, refresh |-> "r2"], [ok |-> TRUE, refresh |-> Null],
     [ok |-> FALSE, refresh |-> Null]}

\* signIn(email, password) from the login screen
SignIn ==
    /\ signInPc = "idle" /\ signOutPc = "idle"
    /\ token = Null
    /\ signInPc' = "api"
    /\ UNCHANGED <<serviceVars, screenVars, cacheVars, wrapVars, tokVars, playerVars,
                   sliceVars, authVars, token, refreshToken, user, stored, signInArg, signOutPc,
                   refreshPc, refreshArg, signedOut, refreshFailed>>

\* apiService.signIn and getUserProfile have settled: storeAuth is called, or
\* signIn throws
SignInResponse(ok, refresh) ==
    /\ signInPc = "api"
    /\ IF ok
       THEN /\ signInPc' = "store"
            /\ signInArg' = refresh
       ELSE /\ signInPc' = "idle"
            /\ UNCHANGED signInArg
    /\ UNCHANGED <<serviceVars, screenVars, cacheVars, wrapVars, tokVars, playerVars,
                   sliceVars, authVars, token, refreshToken, user, stored, signOutPc,
                   refreshPc, refreshArg, signedOut, refreshFailed>>

\* storeAuth: the AsyncStorage.setItem calls
StoreAuthItems ==
    /\ signInPc = "store"
    /\ stored' = [token |-> "t1",
                  refresh |-> IF signInArg # Null THEN signInArg ELSE stored.refresh,
                  user |-> "u1"]
    /\ signInPc' = "set"
    /\ signedOut' = FALSE
    /\ refreshFailed' = FALSE
    /\ UNCHANGED <<serviceVars, screenVars, cacheVars, wrapVars, tokVars, playerVars,
                   sliceVars, authVars, token, refreshToken, user, signInArg, signOutPc,
                   refreshPc, refreshArg>>

\* storeAuth: setToken, setRefreshToken, setUser
StoreAuthState ==
    /\ signInPc = "set"
    /\ token' = "t1"
    /\ refreshToken' = signInArg
    /\ user' = "u1"
    /\ signInPc' = "idle"
    /\ signedOut' = FALSE
    /\ refreshFailed' = FALSE
    /\ UNCHANGED <<serviceVars, screenVars, cacheVars, wrapVars, tokVars, playerVars,
                   sliceVars, authVars, stored, signInArg, signOutPc, refreshPc, refreshArg>>

\* signOut(): await apiService.signOut(token) when there is a token
SignOut ==
    /\ signOutPc = "idle" /\ signInPc = "idle"
    /\ signOutPc' = IF token # Null THEN "api" ELSE "clear"
    /\ UNCHANGED <<serviceVars, screenVars, cacheVars, wrapVars, tokVars, playerVars,
                   sliceVars, authVars, token, refreshToken, user, stored, signInPc, signInArg,
                   refreshPc, refreshArg, signedOut, refreshFailed>>

\* apiService.signOut settles, either way: finally
SignOutSettles ==
    /\ signOutPc = "api"
    /\ signOutPc' = "clear"
    /\ UNCHANGED <<serviceVars, screenVars, cacheVars, wrapVars, tokVars, playerVars,
                   sliceVars, authVars, token, refreshToken, user, stored, signInPc, signInArg,
                   refreshPc, refreshArg, signedOut, refreshFailed>>

\* clearAuth of signOut: the AsyncStorage.removeItem calls
SignOutClearItems ==
    /\ signOutPc = "clear"
    /\ stored' = NoAuth
    /\ signOutPc' = "set"
    /\ UNCHANGED <<serviceVars, screenVars, cacheVars, wrapVars, tokVars, playerVars,
                   sliceVars, authVars, token, refreshToken, user, signInPc, signInArg,
                   refreshPc, refreshArg, signedOut, refreshFailed>>

\* clearAuth of signOut: setToken(null), setRefreshToken(null), setUser(null);
\* signOut has completed
SignOutClearState ==
    /\ signOutPc = "set"
    /\ token' = Null
    /\ refreshToken' = Null
    /\ user' = Null
    /\ signOutPc' = "idle"
    /\ signedOut' = TRUE
    /\ UNCHANGED <<serviceVars, screenVars, cacheVars, wrapVars, tokVars, playerVars,
                   sliceVars, authVars, stored, signInPc, signInArg, refreshPc, refreshArg,
                   refreshFailed>>

\* refreshAuthToken(): throws at once without a refresh token, else awaits
\* apiService.refreshToken(refreshToken)
RefreshAuthToken ==
    /\ refreshPc = "idle"
    /\ refreshToken # Null
    /\ refreshPc' = "api"
    /\ UNCHANGED <<serviceVars, screenVars, cacheVars, wrapVars, tokVars, playerVars,
                   sliceVars, authVars, token, refreshToken, user, stored, signInPc, signInArg,
                   signOutPc, refreshArg, signedOut, refreshFailed>>

\* the refresh request settles
RefreshResponse(r) ==
    /\ refreshPc = "api"
    /\ refreshPc' = IF r.ok THEN "store" ELSE "clear"
    /\ refreshArg' = r.refresh
    /\ UNCHANGED <<serviceVars, screenVars, cacheVars, wrapVars, tokVars, playerVars,
                   sliceVars, authVars, token, refreshToken, user, stored, signInPc, signInArg,
                   signOutPc, signedOut, refreshFailed>>

\* the successful branch: setItem(AUTH_TOKEN), and setItem('refresh_token')
\* when the response has one
RefreshStoreItems ==
    /\ refreshPc = "store"
    /\ stored' = [stored EXCEPT !.token = "t2",
                                !.refresh = IF refreshArg # Null THEN refreshArg ELSE @]
    /\ refreshPc' = "set"
    /\ UNCHANGED <<serviceVars, screenVars, cacheVars, wrapVars, tokVars, playerVars,
                   sliceVars, authVars, token, refreshToken, user, signInPc, signInArg, signOutPc,
                   refreshArg, signedOut, refreshFailed>>

\* the successful branch: setRefreshToken when the response has one, setToken
RefreshSetState ==
    /\ refreshPc = "set"
    /\ token' = "t2"
    /\ refreshToken' = IF refreshArg # Null THEN refreshArg ELSE refreshToken
    /\ refreshPc' = "idle"
    /\ UNCHANGED <<serviceVars, screenVars, cacheVars, wrapVars, tokVars, playerVars,
                   sliceVars, authVars, user, stored, signInPc, signInArg, signOutPc, refreshArg,
                   signedOut, refreshFailed>>

\* catch: clearAuth, the AsyncStorage.removeItem calls
RefreshClearItems ==
    /\ refreshPc = "clear"
    /\ stored' = NoAuth
    /\ refreshPc' = "clear_set"
    /\ UNCHANGED <<serviceVars, screenVars, cacheVars, wrapVars, tokVars, playerVars,
                   sliceVars, authVars, token, refreshToken, user, signInPc, signInArg, signOutPc,
                   refreshArg, signedOut, refreshFailed>>

\* catch: clearAuth sets the three to null, and the error is thrown on
RefreshClearState ==
    /\ refreshPc = "clear_set"
    /\ token' = Null
    /\ refreshToken' = Null
    /\ user' = Null
    /\ refreshPc' = "idle"
    /\ refreshFailed' = TRUE
    /\ UNCHANGED <<serviceVars, screenVars, cacheVars, wrapVars, tokVars, playerVars,
                   sliceVars, authVars, stored, signInPc, signInArg, signOutPc, refreshArg,
                   signedOut>>

\* -------------------------------------------------------------- auth slice
\* UserData payloads, told apart by childName
Users == {"Emma", "Mia"}
AuthThunks == {"loginWithEmailPassword", "registerUser", "updateUserProfile",
               "verifyTokenAndLoadProfile"}

\* loginSuccess leaves state.firebase_token as it is
LoginSuccessToken(tk) == tk

\* loginStart
LoginStart ==
    /\ ~isLoading \/ authError # Null
    /\ isLoading' = TRUE
    /\ authError' = Null
    /\ lastAction' = "loginStart"
    /\ UNCHANGED <<notAuthVars, isAuthenticated, authUser, firebase_token, pending, updateHasToken>>

\* loginSuccess(userData), as the login screen dispatches it
LoginSuccess(u) ==
    /\ isAuthenticated' = TRUE
    /\ authUser' = u
    /\ firebase_token' = LoginSuccessToken(firebase_token)
    /\ isLoading' = FALSE
    /\ authError' = Null
    /\ lastAction' = "loginSuccess"
    /\ UNCHANGED <<notAuthVars, pending, updateHasToken>>

\* loginFailure(message)
LoginFailure ==
    /\ isAuthenticated' = FALSE
    /\ authUser' = Null
    /\ isLoading' = FALSE
    /\ authError' = "Invalid email or password"
    /\ lastAction' = "loginFailure"
    /\ UNCHANGED <<notAuthVars, firebase_token, pending, updateHasToken>>

\* logout
Logout ==
    /\ isAuthenticated' = FALSE
    /\ authUser' = Null
    /\ firebase_token' = Null
    /\ authError' = Null
    /\ lastAction' = "logout"
    /\ UNCHANGED <<notAuthVars, isLoading, pending, updateHasToken>>

\* updateUser(partial): merged into state.user when there is one
UpdateUser(name) ==
    /\ authUser' = IF authUser # Null THEN name ELSE authUser
    /\ lastAction' = "updateUser"
    /\ UNCHANGED <<notAuthVars, isAuthenticated, firebase_token, isLoading, authError, pending, updateHasToken>>

\* setFirebaseToken(token)
SetFirebaseToken(tk) ==
    /\ firebase_token' = tk
    /\ lastAction' = "setFirebaseToken"
    /\ UNCHANGED <<notAuthVars, isAuthenticated, authUser, isLoading, authError, pending, updateHasToken>>

\* a thunk is dispatched: its pending reducer; updateUserProfile reads the token
ThunkPending(th) ==
    /\ th \notin pending
    /\ isLoading' = TRUE
    /\ authError' = IF th = "verifyTokenAndLoadProfile" THEN authError ELSE Null
    /\ pending' = pending \cup {th}
    /\ updateHasToken' = IF th = "updateUserProfile" THEN firebase_token # Null ELSE updateHasToken
    /\ lastAction' = "pending"
    /\ UNCHANGED <<notAuthVars, isAuthenticated, authUser, firebase_token>>

\* loginWithEmailPassword.fulfilled and verifyTokenAndLoadProfile.fulfilled
SignedInFulfilled(th, tk, hasProfile, u) ==
    /\ th \in pending \cap {"loginWithEmailPassword", "verifyTokenAndLoadProfile"}
    /\ isAuthenticated' = hasProfile
    /\ authUser' = IF hasProfile THEN u ELSE Null
    /\ firebase_token' = tk
    /\ isLoading' = FALSE
    /\ pending' = pending \ {th}
    /\ lastAction' = "fulfilled"
    /\ UNCHANGED <<notAuthVars, authError, updateHasToken>>

\* loginWithEmailPassword.rejected and verifyTokenAndLoadProfile.rejected
SignedInRejected(th) ==
    /\ th \in pending \cap {"loginWithEmailPassword", "verifyTokenAndLoadProfile"}
    /\ isAuthenticated' = FALSE
    /\ authUser' = Null
    /\ firebase_token' = Null
    /\ isLoading' = FALSE
    /\ authError' = IF th = "loginWithEmailPassword"
                    THEN "Login failed" ELSE "Token verification failed"
    /\ pending' = pending \ {th}
    /\ lastAction' = "rejected"
    /\ UNCHANGED <<notAuthVars, updateHasToken>>

\* registerUser.fulfilled
RegisterFulfilled(tk, u) ==
    /\ "registerUser" \in pending
    /\ isAuthenticated' = TRUE
    /\ authUser' = u
    /\ firebase_token' = tk
    /\ isLoading' = FALSE
    /\ pending' = pending \ {"registerUser"}
    /\ lastAction' = "fulfilled"
    /\ UNCHANGED <<notAuthVars, authError, updateHasToken>>

\* registerUser.rejected
RegisterRejected ==
    /\ "registerUser" \in pending
    /\ isLoading' = FALSE
    /\ authError' = "Registration failed"
    /\ pending' = pending \ {"registerUser"}
    /\ lastAction' = "rejected"
    /\ UNCHANGED <<notAuthVars, isAuthenticated, authUser, firebase_token, updateHasToken>>

\* updateUserProfile.fulfilled: the thunk had a token and the server accepted
UpdateProfileFulfilled(u) ==
    /\ "updateUserProfile" \in pending
    /\ updateHasToken
    /\ authUser' = u
    /\ isLoading' = FALSE
    /\ pending' = pending \ {"updateUserProfile"}
    /\ lastAction' = "fulfilled"
    /\ UNCHANGED <<notAuthVars, isAuthenticated, firebase_token, authError, updateHasToken>>

\* updateUserProfile.rejected
UpdateProfileRejected ==
    /\ "updateUserProfile" \in pending
    /\ isLoading' = FALSE
    /\ authError' = "Profile update failed"
    /\ pending' = pending \ {"updateUserProfile"}
    /\ lastAction' = "rejected"
    /\ UNCHANGED <<notAuthVars, isAuthenticated, authUser, firebase_token, updateHasToken>>

\* ------------------------------------------------- StoryPlayerScreen poller
\* apiService.fetchStoryStatus: it throws or returns {success, story?, status?}
ScreenResponses ==
    {[kind |-> "error", success |-> FALSE, hasStory |-> FALSE,
      storyStatus |-> Undefined, status |-> Undefined]}
    \cup {[kind |-> "body", success |-> s, hasStory |-> FALSE,
           storyStatus |-> Undefined, status |-> st] :
            s \in BOOLEAN, st \in {Undefined, "processing", "failed"}}
    \cup {[kind |-> "body", success |-> s, hasStory |-> TRUE,
           storyStatus |-> ss, status |-> Undefined] :
            s \in BOOLEAN, ss \in {"processing", "completed", "failed"}}

ReportsFailed(r) ==
    r.kind = "body" /\ (r.status = "failed" \/ (r.hasStory /\ r.storyStatus = "failed"))

\* onRefresh: fetchStoryDetails issues its request
ScreenRefresh ==
    /\ scrMounted
    /\ scrDetail < MaxInflight
    /\ scrDetail' = scrDetail + 1
    /\ UNCHANGED <<store, kvFails, jobVars, cancelled, loaderVars, cacheVars, hookVars,
                   scrMounted, scrTimer, scrFetches, scrStory, scrSawFailed>>

\* the request of fetchStoryDetails settles; startPolling() while processing
DetailResponse(r) ==
    /\ scrDetail > 0
    /\ scrDetail' = scrDetail - 1
    /\ IF r.kind = "body" /\ r.success /\ r.hasStory
       THEN /\ scrStory' = r.storyStatus
            /\ scrTimer' = (scrTimer \/ r.storyStatus = "processing")
       ELSE IF r.kind = "body" /\ r.status = "processing"
       THEN /\ scrStory' = "processing"
            /\ scrTimer' = TRUE
       ELSE UNCHANGED <<scrStory, scrTimer>>
    /\ UNCHANGED <<store, kvFails, jobVars, cancelled, loaderVars, cacheVars, hookVars,
                   scrMounted, scrFetches, scrSawFailed>>

\* the interval of startPolling fires: its callback issues fetchStoryStatus
PollTick ==
    /\ scrTimer
    /\ scrFetches < MaxInflight
    /\ scrFetches' = scrFetches + 1
    /\ UNCHANGED <<store, kvFails, jobVars, cancelled, loaderVars, cacheVars, hookVars,
                   scrMounted, scrTimer, scrDetail, scrStory, scrSawFailed>>

\* a request of the interval callback settles
PollTickResponse(r) ==
    /\ scrFetches > 0
    /\ scrFetches' = scrFetches - 1
    /\ scrSawFailed' = (scrSawFailed \/ ReportsFailed(r))
    /\ IF r.kind = "body" /\ r.success /\ r.hasStory
       THEN /\ scrStory' = r.storyStatus
            /\ scrTimer' = (scrTimer /\ r.storyStatus # "completed")
       ELSE UNCHANGED <<scrStory, scrTimer>>
    /\ UNCHANGED <<store, kvFails, jobVars, cancelled, loaderVars, cacheVars, hookVars,
                   scrMounted, scrDetail>>

\* the cleanup of the [sound] effect runs because the screen unmounts
ScreenUnmount ==
    /\ scrMounted
    /\ scrMounted' = FALSE
    /\ scrTimer' = FALSE
    /\ UNCHANGED <<store, kvFails, jobVars, cancelled, loaderVars, cacheVars, hookVars,
                   scrDetail, scrFetches, scrStory, scrSawFailed>>

\* the same cleanup runs because `sound` changed
SoundChange ==
    /\ scrMounted
    /\ scrTimer' = FALSE
    /\ UNCHANGED <<store, kvFails, jobVars, cancelled, loaderVars, cacheVars, hookVars,
                   scrMounted, scrDetail, scrFetches, scrStory, scrSawFailed>>

\* ------------------------------------------- the cache operations, called directly
Statuses == {"processing", "completed", "failed"}

\* arguments of saveLocalStoryMetadata: a placeholder or a completed story
CacheStories ==
    {Meta(id, "Generating...", "a robot", "now", 0, "processing", Undefined) : id \in OldIds}
    \cup {Meta(id, "server title", "", "server time", 7, "completed", "image 1") :
            id \in OldIds}

\* the arguments a caller is not using
NoStory == Meta("s8", "server title", "", "server time", 7, "completed", "image 1")
NoId == "s8"
NoStatus == "processing"

CacheIdle(c) == opc[c] = "idle"

\* saveLocalStoryMetadata(story): const stories = await this.getLocalStories()
SaveLocalStoryMetadataGet(c, story) ==
    /\ CacheIdle(c)
    /\ ostory' = [ostory EXCEPT ![c] = story]
    /\ \E ok \in KvOutcomes :
          /\ ostories' = [ostories EXCEPT ![c] = GetLocalStories(ok)]
          /\ okv' = [okv EXCEPT ![c] = ~ok]
          /\ opc' = [opc EXCEPT ![c] =
                        IF Caught(~ok) = "resolved" THEN "save_set" ELSE "idle"]
          /\ oresult' = [oresult EXCEPT ![c] =
                        IF Caught(~ok) = "resolved" THEN "none" ELSE "rejected"]
    /\ oid' = [oid EXCEPT ![c] = NoId]
    /\ ostatus' = [ostatus EXCEPT ![c] = NoStatus]
    /\ UNCHANGED <<store, kvFails, jobVars, cancelled, loaderVars, screenVars, hookVars>>

\* saveLocalStoryMetadata: findIndex, replace or unshift, await AsyncStorage.setItem(...)
SaveLocalStoryMetadataSet(c) ==
    /\ opc[c] = "save_set"
    /\ \E ok \in KvOutcomes :
          /\ store' = SetItem(Upsert(ostories[c], ostory[c]), ok)
          /\ okv' = [okv EXCEPT ![c] = @ \/ ~ok]
          /\ oresult' = [oresult EXCEPT ![c] = Caught(~ok)]
    /\ opc' = [opc EXCEPT ![c] = "idle"]
    /\ UNCHANGED <<kvFails, jobVars, cancelled, loaderVars, screenVars, hookVars,
                   ostory, oid, ostatus, ostories>>

\* updateLocalStoryStatus(story_id, status): getLocalStories and stories.find.
\* ostories keeps the list as it was read; story.status = status is applied
\* to it when the list is written.
UpdateLocalStoryStatusGet(c, id, status) ==
    /\ CacheIdle(c)
    /\ oid' = [oid EXCEPT ![c] = id]
    /\ ostatus' = [ostatus EXCEPT ![c] = status]
    /\ \E ok \in KvOutcomes :
          LET stories == GetLocalStories(ok) IN
          /\ ostories' = [ostories EXCEPT ![c] = stories]
          /\ okv' = [okv EXCEPT ![c] = ~ok]
          /\ opc' = [opc EXCEPT ![c] =
                        IF Caught(~ok) # "resolved" THEN "idle"
                        ELSE IF FindIndex(stories, id) > 0 THEN "upd_set" ELSE "upd_miss"]
          /\ oresult' = [oresult EXCEPT ![c] =
                        IF Caught(~ok) = "resolved" THEN "none" ELSE "rejected"]
    /\ ostory' = [ostory EXCEPT ![c] = NoStory]
    /\ UNCHANGED <<store, kvFails, jobVars, cancelled, loaderVars, screenVars, hookVars>>

\* updateLocalStoryStatus: await AsyncStorage.setItem(...)
UpdateLocalStoryStatusSet(c) ==
    /\ opc[c] = "upd_set"
    /\ \E ok \in KvOutcomes :
          /\ store' = SetItem(PatchStatus(ostories[c], oid[c], ostatus[c]), ok)
          /\ okv' = [okv EXCEPT ![c] = @ \/ ~ok]
          /\ oresult' = [oresult EXCEPT ![c] = Caught(~ok)]
    /\ opc' = [opc EXCEPT ![c] = "idle"]
    /\ UNCHANGED <<kvFails, jobVars, cancelled, loaderVars, screenVars, hookVars,
                   ostory, oid, ostatus, ostories>>

\* updateLocalStoryStatus: stories.find had no hit, the call returns
UpdateLocalStoryStatusMiss(c) ==
    /\ opc[c] = "upd_miss"
    /\ opc' = [opc EXCEPT ![c] = "idle"]
    /\ oresult' = [oresult EXCEPT ![c] = "resolved"]
    /\ UNCHANGED <<store, kvFails, jobVars, cancelled, loaderVars, screenVars, hookVars,
                   ostory, oid, ostatus, ostories, okv>>

\* saveAllLocalStories(localStories) with the list getUserStories mapped
SaveAllLocalStories(c, l) ==
    /\ CacheIdle(c)
    /\ \E ok \in KvOutcomes :
          /\ store' = SetItem(MapStories(l), ok)
          /\ okv' = [okv EXCEPT ![c] = ~ok]
          /\ oresult' = [oresult EXCEPT ![c] = Caught(~ok)]
    /\ UNCHANGED <<kvFails, jobVars, cancelled, loaderVars, screenVars, hookVars,
                   opc, ostory, oid, ostatus, ostories>>

\* getLocalStories() called on its own
GetLocalStoriesCall(c) ==
    /\ CacheIdle(c)
    /\ \E ok \in KvOutcomes :
          /\ ostories' = [ostories EXCEPT ![c] = GetLocalStories(ok)]
          /\ okv' = [okv EXCEPT ![c] = ~ok]
          /\ oresult' = [oresult EXCEPT ![c] = Caught(~ok)]
    /\ ostory' = [ostory EXCEPT ![c] = NoStory]
    /\ oid' = [oid EXCEPT ![c] = NoId]
    /\ ostatus' = [ostatus EXCEPT ![c] = NoStatus]
    /\ UNCHANGED <<store, kvFails, jobVars, cancelled, loaderVars, screenVars, hookVars,
                   opc>>

\* ------------------------------------------------- token-refresh wrappers
\* what apiCall() throws: error.status (0: none) and the keyword, if any, that
\* error.message contains
ApiErrors == [status : {0, 401, 403, 500}, word : {"none", "token", "invalid"}]
NoError == [status |-> 0, word |-> "none"]

\* isTokenRelatedError of useApiWithTokenRefresh
isTokenRelatedError(e) ==
    \/ e.status = 401 \/ e.status = 403
    \/ e.word \in {"token", "unauthorized", "expired", "invalid", "authentication",
                   "forbidden", "session"}

\* isTokenError of apiCallWithTokenRefresh
isTokenError(e) ==
    \/ e.word \in {"token", "unauthorized", "expired"}
    \/ e.status = 401

\* the wrapper is called and awaits its first apiCall()
WrapCall(k, retry, hasRefresh, show) ==
    /\ wpc = "idle"
    /\ wpc' = "call1"
    /\ wrapper' = k
    /\ wretry' = retry
    /\ wrefreshTok' = hasRefresh
    /\ wshowAlert' = show
    /\ wcalls' = 1
    \* () => apiService.generateStory(prompt, token!) of the current render
    /\ wcaptured' = authToken
    /\ wsent' = authToken
    /\ UNCHANGED <<werror, wrefreshes, wretryFailed, walert, wsignOut, authToken>>
    /\ UNCHANGED <<serviceVars, screenVars, cacheVars, tokVars, playerVars, stateVars>>

\* handleTokenExpiration once attemptTokenRefresh has returned false: the
\* alert, or await signOut()
ExpirationFailed ==
    IF wshowAlert
    THEN walert' = TRUE /\ UNCHANGED wsignOut
    ELSE wsignOut' = TRUE /\ UNCHANGED walert

\* the first apiCall() resolves
Call1Resolves ==
    /\ wpc = "call1"
    /\ wpc' = "resolved"
    /\ UNCHANGED <<wrapper, wretry, wrefreshTok, wshowAlert, werror, wcalls, wrefreshes,
                   wretryFailed, walert, wsignOut>>
    /\ UNCHANGED <<serviceVars, screenVars, cacheVars, tokVars, playerVars, stateVars>>
    /\ UNCHANGED <<authToken, wcaptured, wsent>>

\* the first apiCall() throws e
Call1Throws(e) ==
    /\ wpc = "call1"
    /\ werror' = e
    /\ IF wrapper = "executeApiCall"
       THEN IF isTokenRelatedError(e) /\ wretry
            THEN \* await refreshAuthToken()
                 /\ wrefreshes' = wrefreshes + 1
                 /\ wpc' = "refresh"
                 /\ UNCHANGED <<walert, wsignOut>>
            ELSE \* customErrorHandler or showDefaultErrorAlert; throw error
                 /\ wpc' = "rejected"
                 /\ UNCHANGED <<wrefreshes, walert, wsignOut>>
       ELSE IF isTokenError(e)
            THEN IF wrefreshTok
                 THEN \* attemptTokenRefresh: await refreshAuthToken()
                      /\ wrefreshes' = wrefreshes + 1
                      /\ wpc' = "refresh"
                      /\ UNCHANGED <<walert, wsignOut>>
                 ELSE \* attemptTokenRefresh returns false, here and in
                      \* handleTokenExpiration; throw error
                      /\ ExpirationFailed
                      /\ wpc' = "rejected"
                      /\ UNCHANGED wrefreshes
            ELSE /\ wpc' = "rejected"
                 /\ UNCHANGED <<wrefreshes, walert, wsignOut>>
    /\ UNCHANGED <<wrapper, wretry, wrefreshTok, wshowAlert, wcalls, wretryFailed>>
    /\ UNCHANGED <<serviceVars, screenVars, cacheVars, tokVars, playerVars, stateVars>>
    /\ UNCHANGED <<authToken, wcaptured, wsent>>

\* refreshAuthToken() settles
RefreshSettles(ok) ==
    /\ wpc = "refresh"
    /\ IF ok
       THEN \* setToken(response.firebase_token); return await apiCall()
            /\ authToken' = authToken + 1
            /\ wcalls' = wcalls + 1
            /\ wsent' = wcaptured
            /\ wpc' = "call2"
            /\ UNCHANGED <<wrefreshes, walert>>
       ELSE IF wrapper = "executeApiCall"
            THEN \* catch (refreshError): the alert; throw refreshError
                 /\ walert' = TRUE
                 /\ wpc' = "rejected"
                 /\ UNCHANGED <<wcalls, wrefreshes, authToken, wsent>>
            ELSE \* handleTokenExpiration: attemptTokenRefresh calls
                 \* refreshAuthToken() again
                 /\ wrefreshes' = wrefreshes + 1
                 /\ wpc' = "refresh2"
                 /\ UNCHANGED <<wcalls, walert, authToken, wsent>>
    /\ UNCHANGED <<wrapper, wretry, wrefreshTok, wshowAlert, werror, wretryFailed, wsignOut,
                   wcaptured>>
    /\ UNCHANGED <<serviceVars, screenVars, cacheVars, tokVars, playerVars, stateVars>>

\* the refreshAuthToken() of handleTokenExpiration settles; throw error
Refresh2Settles(ok) ==
    /\ wpc = "refresh2"
    /\ IF ok
       THEN authToken' = authToken + 1 /\ UNCHANGED <<walert, wsignOut>>
       ELSE ExpirationFailed /\ UNCHANGED authToken
    /\ wpc' = "rejected"
    /\ UNCHANGED <<wcaptured, wsent>>
    /\ UNCHANGED <<wrapper, wretry, wrefreshTok, wshowAlert, werror, wcalls, wrefreshes,
                   wretryFailed>>
    /\ UNCHANGED <<serviceVars, screenVars, cacheVars, tokVars, playerVars, stateVars>>

\* the retried apiCall() resolves
Call2Resolves ==
    /\ wpc = "call2"
    /\ wpc' = "resolved"
    /\ UNCHANGED <<wrapper, wretry, wrefreshTok, wshowAlert, werror, wcalls, wrefreshes,
                   wretryFailed, walert, wsignOut>>
    /\ UNCHANGED <<serviceVars, screenVars, cacheVars, tokVars, playerVars, stateVars>>
    /\ UNCHANGED <<authToken, wcaptured, wsent>>

\* the retried apiCall() throws: executeApiCall catches it as refreshError,
\* apiCallWithTokenRefresh lets it pass
Call2Throws ==
    /\ wpc = "call2"
    /\ wretryFailed' = TRUE
    /\ walert' = (walert \/ wrapper = "executeApiCall")
    /\ wpc' = "rejected"
    /\ UNCHANGED <<wrapper, wretry, wrefreshTok, wshowAlert, werror, wcalls, wrefreshes,
                   wsignOut>>
    /\ UNCHANGED <<serviceVars, screenVars, cacheVars, tokVars, playerVars, stateVars>>
    /\ UNCHANGED <<authToken, wcaptured, wsent>>

\* the user presses 'Sign In', the only button of the alert: signOut()
AlertPress ==
    /\ walert
    /\ walert' = FALSE
    /\ wsignOut' = TRUE
    /\ UNCHANGED <<wpc, wrapper, wretry, wrefreshTok, wshowAlert, werror, wcalls,
                   wrefreshes, wretryFailed>>
    /\ UNCHANGED <<serviceVars, screenVars, cacheVars, tokVars, playerVars, stateVars>>
    /\ UNCHANGED <<authToken, wcaptured, wsent>>

\* ------------------------------------------------------- useTokenManager
\* time passes
Tick ==
    /\ now < debounceMs + MaxTicks * 10000
    /\ now' = now + 10000
    /\ UNCHANGED <<tpc, ttoken, trefreshTok, tshowAlert, lastVerification, lastTrip,
                   prevTrip, talert>>
    /\ UNCHANGED <<serviceVars, screenVars, cacheVars, wrapVars, playerVars, stateVars>>

\* useTokenManager(options) is mounted for a signed-in user who may hold a
\* refresh token
UseTokenManager(hasRefresh, show) ==
    /\ tpc = "unmounted"
    /\ tpc' = "idle"
    /\ trefreshTok' = hasRefresh
    /\ tshowAlert' = show
    /\ UNCHANGED <<now, ttoken, lastVerification, lastTrip, prevTrip, talert>>
    /\ UNCHANGED <<serviceVars, screenVars, cacheVars, wrapVars, playerVars, stateVars>>

\* checkTokenStatus() is called: it returns at once, or verifyCurrentToken
\* sends the verify-token request
CheckTokenStatus ==
    /\ tpc = "idle"
    /\ IF ttoken /\ ~(now - lastVerification < debounceMs)
       THEN /\ tpc' = "verify"
            /\ prevTrip' = lastTrip
            /\ lastTrip' = now
       ELSE UNCHANGED <<tpc, prevTrip, lastTrip>>
    /\ UNCHANGED <<now, ttoken, trefreshTok, tshowAlert, lastVerification, talert>>
    /\ UNCHANGED <<serviceVars, screenVars, cacheVars, wrapVars, playerVars, stateVars>>

\* handleTokenExpiration once attemptTokenRefresh has returned false
TokenExpired ==
    IF tshowAlert
    THEN talert' = TRUE /\ UNCHANGED ttoken
    ELSE \* await signOut(): clearAuth
         ttoken' = FALSE /\ UNCHANGED talert

\* verifyToken() settles: valid, invalid, or the request failed (verifyToken
\* of the auth context catches and returns false)
VerifySettles(valid) ==
    /\ tpc = "verify"
    /\ IF valid
       THEN /\ lastVerification' = now
            /\ tpc' = "idle"
            /\ UNCHANGED <<ttoken, trefreshTok, talert>>
       ELSE \* handleTokenExpiration: attemptTokenRefresh
            /\ IF trefreshTok
               THEN /\ tpc' = "refresh"
                    /\ UNCHANGED <<ttoken, talert>>
               ELSE /\ TokenExpired
                    /\ tpc' = "idle"
            /\ UNCHANGED <<lastVerification, trefreshTok>>
    /\ UNCHANGED <<now, tshowAlert, lastTrip, prevTrip>>
    /\ UNCHANGED <<serviceVars, screenVars, cacheVars, wrapVars, playerVars, stateVars>>

\* the refreshAuthToken() of attemptTokenRefresh settles; when it fails the
\* auth context has cleared the session
TokenRefreshSettles(ok) ==
    /\ tpc = "refresh"
    /\ tpc' = "idle"
    /\ IF ok
       THEN UNCHANGED <<ttoken, trefreshTok, talert>>
       ELSE /\ ttoken' = FALSE
            /\ trefreshTok' = FALSE
            /\ talert' = (talert \/ tshowAlert)
    /\ UNCHANGED <<now, tshowAlert, lastVerification, lastTrip, prevTrip>>
    /\ UNCHANGED <<serviceVars, screenVars, cacheVars, wrapVars, playerVars, stateVars>>

\* the user presses 'Sign In' on the alert: signOut()
TokenAlertPress ==
    /\ talert
    /\ talert' = FALSE
    /\ ttoken' = FALSE
    /\ trefreshTok' = FALSE
    /\ UNCHANGED <<now, tpc, tshowAlert, lastVerification, lastTrip, prevTrip>>
    /\ UNCHANGED <<serviceVars, screenVars, cacheVars, wrapVars, playerVars, stateVars>>

\* ------------------------------------------------- app/story-player.tsx
\* A render is committed before the next press is handled, so a press runs the
\* handlers of the current currentSceneIndex.  The onPlaybackStatusUpdate of a
\* Sound is the one of the render that called loadSceneAudio: it keeps that
\* render's currentSceneIndex and handleNextScene.  createAsync resolves.

\* no Sound; else the scene a Sound plays and the currentSceneIndex its
\* onPlaybackStatusUpdate has closed over
NoSound == [scene |-> -1, index |-> -1]

\* the Sound after loadSceneAudio(sceneIndex) of the render with
\* currentSceneIndex = index, over n scenes
loadSceneAudio(sceneIndex, index, n) ==
    IF sceneIndex >= n
    THEN sound
    ELSE [scene |-> sceneIndex, index |-> index]

\* handleNextScene of the render with currentSceneIndex = index
handleNextScene(index) ==
    IF index < scenes - 1
    THEN /\ currentSceneIndex' = index + 1
         /\ sound' = loadSceneAudio(index + 1, index, scenes)
    ELSE UNCHANGED <<currentSceneIndex, sound>>

\* handlePreviousScene of the render with currentSceneIndex = index
handlePreviousScene(index) ==
    IF index > 0
    THEN /\ currentSceneIndex' = index - 1
         /\ sound' = loadSceneAudio(index - 1, index, scenes)
    ELSE UNCHANGED <<currentSceneIndex, sound>>

\* serverStory arrives with n scenes: the effect on [scenes] loads the audio
\* of the scene the pointer is at
AppStoryLoaded(n) ==
    /\ scenes = 0
    /\ scenes' = n
    /\ sound' = loadSceneAudio(currentSceneIndex, currentSceneIndex, n)
    /\ lastEvent' = "loaded"
    /\ prevIndex' = currentSceneIndex
    /\ UNCHANGED <<serviceVars, screenVars, cacheVars, wrapVars, tokVars, stateVars, plVars,
                   currentSceneIndex>>

\* the SkipForward button
PressNext ==
    /\ scenes > 0
    /\ handleNextScene(currentSceneIndex)
    /\ lastEvent' = "next"
    /\ prevIndex' = currentSceneIndex
    /\ UNCHANGED <<serviceVars, screenVars, cacheVars, wrapVars, tokVars, stateVars, plVars,
                   scenes>>

\* the SkipBack button
PressPrevious ==
    /\ scenes > 0
    /\ handlePreviousScene(currentSceneIndex)
    /\ lastEvent' = "previous"
    /\ prevIndex' = currentSceneIndex
    /\ UNCHANGED <<serviceVars, screenVars, cacheVars, wrapVars, tokVars, stateVars, plVars,
                   scenes>>

\* an item of the "All Scenes" list
SceneTap(index) ==
    /\ index < scenes
    /\ currentSceneIndex' = index
    /\ sound' = loadSceneAudio(index, currentSceneIndex, scenes)
    /\ lastEvent' = "tap"
    /\ prevIndex' = currentSceneIndex
    /\ UNCHANGED <<serviceVars, screenVars, cacheVars, wrapVars, tokVars, stateVars, plVars,
                   scenes>>

\* onPlaybackStatusUpdate of the Sound, with status.didJustFinish
OnPlaybackStatusUpdate ==
    /\ sound # NoSound
    /\ IF sound.index < scenes - 1
       THEN handleNextScene(sound.index)
       ELSE UNCHANGED <<currentSceneIndex, sound>>
    /\ lastEvent' = "finished"
    /\ prevIndex' = currentSceneIndex
    /\ UNCHANGED <<serviceVars, screenVars, cacheVars, wrapVars, tokVars, stateVars, plVars,
                   scenes>>

\* --------------------------------------------- StoryPlayerScreen playback
\* A Sound of this screen is named by the scene it plays: its status callback
\* calls the handleNext of the render whose currentScene is that scene.
\* createAsync resolves, at any time after loadAudio was called.

\* setCurrentScene made the pointer p: when it changed, the effect on
\* [story, currentScene] calls loadAudio, which unloads the `sound` of the
\* state and goes on to createAsync; playing is what was playing
PlMove(p, playing) ==
    /\ currentScene' = p
    /\ IF p # currentScene /\ p < plScenes
       THEN /\ plLoaded' = plLoaded \ {plSound}
            /\ plPlaying' = playing \ {plSound}
            /\ plLoading' = plLoading \cup {p}
            /\ audioLoading' = TRUE
       ELSE /\ plPlaying' = playing
            /\ UNCHANGED <<plLoaded, plLoading, audioLoading>>

\* fetchStoryDetails sets a completed story of n scenes: the effect loads the
\* audio of the scene the pointer is at
PlStoryLoaded(n) ==
    /\ plScenes = 0
    /\ plScenes' = n
    /\ plLoading' = plLoading \cup {currentScene}
    /\ audioLoading' = TRUE
    /\ plEvent' = "loaded"
    /\ plPrev' = currentScene
    /\ UNCHANGED <<serviceVars, screenVars, cacheVars, wrapVars, tokVars, stateVars, appVars,
                   currentScene, plSound, plLoaded, plPlaying, plFin>>
    /\ UNCHANGED plStale

\* createAsync of the loadAudio for scene k resolves: setSound(newSound)
PlLoadSettles(k) ==
    /\ k \in plLoading
    /\ plLoading' = plLoading \ {k}
    /\ plLoaded' = plLoaded \cup {k}
    /\ plSound' = k
    /\ plStale' = plStale \cup ((plLoaded \cap {plSound}) \ {k})
    /\ audioLoading' = FALSE
    /\ plEvent' = "settled"
    /\ plPrev' = currentScene
    /\ UNCHANGED <<serviceVars, screenVars, cacheVars, wrapVars, tokVars, stateVars, appVars,
                   plScenes, currentScene, plPlaying, plFin>>

\* the cleanup of the effect on [sound], run for the render whose `sound` has
\* been replaced: sound.unloadAsync()
PlCleanup(k) ==
    /\ k \in plStale
    /\ plStale' = plStale \ {k}
    /\ plLoaded' = IF k = plSound THEN plLoaded ELSE plLoaded \ {k}
    /\ plPlaying' = IF k = plSound THEN plPlaying ELSE plPlaying \ {k}
    /\ UNCHANGED <<serviceVars, screenVars, cacheVars, wrapVars, tokVars, stateVars, appVars,
                   plScenes, currentScene, plSound, plLoading, audioLoading, plEvent,
                   plPrev, plFin>>

\* the screen shows the player's controls: there is a scene at the pointer,
\* else it shows 'Scene not found' and the button back
PlControls == currentScene < plScenes

\* handlePlayPause: playAsync or pauseAsync of the `sound` of the state
PlHandlePlayPause ==
    /\ PlControls
    /\ ~audioLoading
    /\ plSound \in plLoaded
    /\ plPlaying' = IF plSound \in plPlaying
                    THEN plPlaying \ {plSound}
                    ELSE plPlaying \cup {plSound}
    /\ plEvent' = "play"
    /\ plPrev' = currentScene
    /\ UNCHANGED <<serviceVars, screenVars, cacheVars, wrapVars, tokVars, stateVars, appVars,
                   plScenes, currentScene, plSound, plLoading, plLoaded, audioLoading,
                   plFin>>
    /\ UNCHANGED plStale

\* handleNext of the render with currentScene = index
PlNext(index, playing) ==
    IF index < plScenes - 1
    THEN PlMove(currentScene + 1, playing)
    ELSE /\ plPlaying' = playing
         /\ UNCHANGED <<currentScene, plLoaded, plLoading, audioLoading>>

\* the SkipForward button
PlHandleNext ==
    /\ PlControls
    /\ PlNext(currentScene, plPlaying)
    /\ plEvent' = "next"
    /\ plPrev' = currentScene
    /\ UNCHANGED <<serviceVars, screenVars, cacheVars, wrapVars, tokVars, stateVars, appVars,
                   plScenes, plSound, plFin>>
    /\ UNCHANGED plStale

\* the SkipBack button
PlHandlePrevious ==
    /\ PlControls
    /\ IF currentScene > 0
       THEN PlMove(currentScene - 1, plPlaying)
       ELSE UNCHANGED <<currentScene, plLoaded, plLoading, plPlaying, audioLoading>>
    /\ plEvent' = "previous"
    /\ plPrev' = currentScene
    /\ UNCHANGED <<serviceVars, screenVars, cacheVars, wrapVars, tokVars, stateVars, appVars,
                   plScenes, plSound, plFin>>
    /\ UNCHANGED plStale

\* a dot of the scene navigation
PlSceneTap(index) ==
    /\ PlControls
    /\ index < plScenes
    /\ PlMove(index, plPlaying)
    /\ plEvent' = "tap"
    /\ plPrev' = currentScene
    /\ UNCHANGED <<serviceVars, screenVars, cacheVars, wrapVars, tokVars, stateVars, appVars,
                   plScenes, plSound, plFin>>
    /\ UNCHANGED plStale

\* the status callback of the Sound of scene k, with status.didJustFinish
PlFinished(k) ==
    /\ k \in plPlaying
    /\ PlNext(k, plPlaying \ {k})
    /\ plFin' = k
    /\ plEvent' = "finished"
    /\ plPrev' = currentScene
    /\ UNCHANGED <<serviceVars, screenVars, cacheVars, wrapVars, tokVars, stateVars, appVars,
                   plScenes, plSound>>
    /\ UNCHANGED plStale

\* ------------------------------------------------------------ specifications
\* what an earlier session left under STORAGE_KEY
OldMeta(id) == Meta(id, "server title", "", "server time", 7, "completed", "image 1")
InitStores ==
    {NoItem} \cup {Item(JsonStringify(<<OldMeta(id)>>)) : id \in OldIds}

InitThunks ==
    /\ pc = [j \in Jobs |-> "idle"]
    /\ prompt = [j \in Jobs |-> "a robot"]
    /\ gresp = [j \in Jobs |-> NoResponse]
    /\ attempt = [j \in Jobs |-> 0]
    /\ reqs = [j \in Jobs |-> 0]
    /\ last = [j \in Jobs |-> "none"]
    /\ onlyProc = [j \in Jobs |-> TRUE]
    /\ entry = [j \in Jobs |-> PlaceholderMeta(j)]
    /\ local = [j \in Jobs |-> <<>>]
    /\ after = [j \in Jobs |-> "poll"]
    /\ err = [j \in Jobs |-> "none"]
    /\ retScenes = [j \in Jobs |-> 0]
    /\ cancelled = [j \in Jobs |-> FALSE]
    /\ generationProgress = ""
    /\ onProgressCalls = [j \in Jobs |-> 0]

InitLoaders ==
    /\ lpc = [t \in Loaders |-> "idle"]
    /\ llist = [t \in Loaders |-> <<>>]
    /\ lresult = [t \in Loaders |-> <<>>]
    /\ lpath = [t \in Loaders |-> "none"]
    /\ lrace = [t \in Loaders |-> FALSE]
    /\ lold = [t \in Loaders |-> <<>>]
    /\ loads = [t \in Loaders |-> 0]

\* StoryPlayerScreen has just mounted: the [id] effect has called fetchStoryDetails
InitScreen ==
    /\ scrMounted = TRUE
    /\ scrTimer = FALSE
    /\ scrDetail = 1
    /\ scrFetches = 0
    /\ scrStory = "null"
    /\ scrSawFailed = FALSE

InitCallers ==
    /\ opc = [c \in Callers |-> "idle"]
    /\ ostory = [c \in Callers |-> NoStory]
    /\ oid = [c \in Callers |-> NoId]
    /\ ostatus = [c \in Callers |-> NoStatus]
    /\ ostories = [c \in Callers |-> <<>>]
    /\ okv = [c \in Callers |-> FALSE]
    /\ oresult = [c \in Callers |-> "none"]

InitWrap ==
    /\ wpc = "idle"
    /\ wrapper = "executeApiCall"
    /\ wretry = TRUE
    /\ wrefreshTok = TRUE
    /\ wshowAlert = TRUE
    /\ werror = NoError
    /\ wcalls = 0
    /\ wrefreshes = 0
    /\ wretryFailed = FALSE
    /\ walert = FALSE
    /\ wsignOut = FALSE
    /\ authToken = 1
    /\ wcaptured = 0
    /\ wsent = 0

\* a signed-in user; Date.now() is far above 30 s
InitToken ==
    /\ now = debounceMs
    /\ tpc = "unmounted"
    /\ ttoken = TRUE
    /\ trefreshTok = TRUE
    /\ tshowAlert = TRUE
    /\ lastVerification = 0
    /\ lastTrip = -1
    /\ prevTrip = -1
    /\ talert = FALSE

\* initialState of the story slice; no thunk dispatched
InitSlice ==
    /\ stateStories = <<>>
    /\ stateError = Null
    /\ isLoadingStories = FALSE
    /\ lthunk = [t \in Loaders |-> NoThunk]
    /\ refreshAlert = FALSE
    /\ rPath = "none"
    /\ rBefore = <<>>

\* the AuthProvider with nothing stored and nobody signed in
InitProvider ==
    /\ token = Null /\ refreshToken = Null /\ user = Null
    /\ stored = NoAuth
    /\ signInPc = "idle" /\ signInArg = Null
    /\ signOutPc = "idle"
    /\ refreshPc = "idle" /\ refreshArg = Null
    /\ signedOut = FALSE
    /\ refreshFailed = FALSE

\* initialState of the auth slice; no thunk dispatched
InitAuth ==
    /\ isAuthenticated = FALSE
    /\ authUser = Null
    /\ firebase_token = Null
    /\ isLoading = FALSE
    /\ authError = Null
    /\ pending = {}
    /\ updateHasToken = FALSE
    /\ lastAction = "none"

\* both story players before their story has arrived
InitPlayers ==
    /\ scenes = 0
    /\ currentSceneIndex = 0
    /\ sound = NoSound
    /\ lastEvent = "none"
    /\ prevIndex = 0
    /\ plScenes = 0
    /\ currentScene = 0
    /\ plSound = -1
    /\ plLoading = {}
    /\ plLoaded = {}
    /\ plPlaying = {}
    /\ audioLoading = FALSE
    /\ plEvent = "none"
    /\ plPrev = 0
    /\ plFin = -1
    /\ plStale = {}

\* a key-value store that works
Init ==
    /\ store \in InitStores
    /\ kvFails = FALSE
    /\ InitThunks
    /\ InitLoaders
    /\ InitScreen
    /\ InitCallers
    /\ InitWrap
    /\ InitToken
    /\ InitPlayers
    /\ InitSlice
    /\ InitProvider
    /\ InitAuth

\* a key-value store whose calls may reject
InitKv ==
    /\ store \in InitStores
    /\ kvFails \in BOOLEAN
    /\ InitThunks
    /\ InitLoaders
    /\ InitScreen
    /\ InitCallers
    /\ InitWrap
    /\ InitToken
    /\ InitPlayers
    /\ InitSlice
    /\ InitProvider
    /\ InitAuth

\* one generation thunk, from dispatch to its fulfilled or rejected action,
\* and the view that dispatched it
Next ==
    \/ \E p \in Prompts : StartGenerate("s1", p)
    \/ \E r \in GenerateResponses : GenerateResponse("s1", r)
    \/ SaveRead("s1")
    \/ SaveWrite("s1")
    \/ PollRequest("s1")
    \/ \E r \in StatusResponses : PollResponse("s1", r)
    \/ SleepDone("s1")
    \/ UpdRead("s1")
    \/ UpdWrite("s1")
    \/ Unmount("s1")

Spec == Init /\ [][Next]_vars

\* the status responses of a story that is complete at the first request
CompletedResponses ==
    {r \in StatusResponses : Classify(r) = "completed" /\ r.scenes = 1
                                /\ r.status = Undefined}

\* two generation thunks in flight at the same time, their steps freely
\* interleaved; each story is complete at its first status request
NextPair ==
    \E j \in Jobs :
        \/ StartGenerate(j, "a robot")
        \/ \E r \in GenerateResponses : GenerateResponse(j, r)
        \/ SaveRead(j)
        \/ SaveWrite(j)
        \/ PollRequest(j)
        \/ \E r \in CompletedResponses : PollResponse(j, r)

SpecPair == Init /\ [][NextPair]_vars

\* the library screen: loadUserStories on l1, pull-to-refresh on l2
NextRefresh ==
    \/ DispatchLoadUserStories("l1")
    \/ LoadUserStoriesSettles("l1")
    \/ HandleRefresh("l2")
    \/ RefreshStoriesSettles("l2")
    \/ \E t \in Loaders : \E r \in ListFailures \cup ListBodies : ListResponse(t, r)
    \/ \E t \in Loaders : AllWrite(t)
    \/ \E t \in Loaders : FallbackRead(t)
    \/ LoadStoryDetailsRejected

SpecRefresh == Init /\ [][NextRefresh]_vars

\* the AuthProvider: sign-in from the login screen, sign-out, and the token
\* refresh of the 50 minute timer and of the hooks
NextProvider ==
    \/ SignIn
    \/ \E ok \in BOOLEAN : \E refresh \in {"r1", Null} : SignInResponse(ok, refresh)
    \/ StoreAuthItems
    \/ StoreAuthState
    \/ SignOut
    \/ SignOutSettles
    \/ SignOutClearItems
    \/ SignOutClearState
    \/ RefreshAuthToken
    \/ \E r \in RefreshResponses : RefreshResponse(r)
    \/ RefreshStoreItems
    \/ RefreshSetState
    \/ RefreshClearItems
    \/ RefreshClearState

SpecProvider == Init /\ [][NextProvider]_vars

\* the auth slice under any sequence of its actions and thunk outcomes
NextAuth ==
    \/ LoginStart
    \/ \E u \in Users : LoginSuccess(u)
    \/ LoginFailure
    \/ Logout
    \/ \E name \in Users : UpdateUser(name)
    \/ \E tk \in {"t1", "t2"} : SetFirebaseToken(tk)
    \/ \E th \in AuthThunks : ThunkPending(th)
    \/ \E th \in AuthThunks, tk \in {"t1", "t2"}, hasProfile \in BOOLEAN, u \in Users :
          SignedInFulfilled(th, tk, hasProfile, u)
    \/ \E th \in AuthThunks : SignedInRejected(th)
    \/ \E tk \in {"t1", "t2"}, u \in Users : RegisterFulfilled(tk, u)
    \/ RegisterRejected
    \/ \E u \in Users : UpdateProfileFulfilled(u)
    \/ UpdateProfileRejected

SpecAuth == Init /\ [][NextAuth]_vars

\* two callers of getUserStories, freely interleaved: the requests of l1 get
\* any answer, those of l2 never bring a list, so l2 only reads the cache
NextLoad ==
    \/ StartLoad("l1")
    \/ \E r \in ListFailures \cup ListBodies : ListResponse("l1", r)
    \/ AllWrite("l1")
    \/ FallbackRead("l1")
    \/ StartLoad("l2")
    \/ \E r \in {x \in ListFailures \cup ListBodies : ~x.hasStories} : ListResponse("l2", r)
    \/ FallbackRead("l2")

SpecLoad == Init /\ [][NextLoad]_vars

\* requests settle, timers fire and AsyncStorage calls return: every step
\* the thunk is waiting for is eventually taken
Advance(j) ==
    \/ \E r \in GenerateResponses : GenerateResponse(j, r)
    \/ SaveRead(j)
    \/ SaveWrite(j)
    \/ PollRequest(j)
    \/ \E r \in StatusResponses : PollResponse(j, r)
    \/ SleepDone(j)
    \/ UpdRead(j)
    \/ UpdWrite(j)

\* the thunk over a key-value store whose calls may reject
SpecKv == InitKv /\ [][Next]_vars

LiveSpec == InitKv /\ [][Next]_vars /\ WF_vars(Advance("s1"))

\* the story player screen showing one story
NextScreen ==
    \/ ScreenRefresh
    \/ \E r \in ScreenResponses : DetailResponse(r)
    \/ PollTick
    \/ \E r \in ScreenResponses : PollTickResponse(r)
    \/ ScreenUnmount
    \/ SoundChange

SpecScreen == Init /\ [][NextScreen]_vars

\* the three cache operations against each other: o1 calls any of them, o2
\* replaces the list, also while a call of o1 is pending
NextCache ==
    \/ \E story \in CacheStories : SaveLocalStoryMetadataGet("o1", story)
    \/ SaveLocalStoryMetadataSet("o1")
    \/ \E id \in OldIds, status \in Statuses : UpdateLocalStoryStatusGet("o1", id, status)
    \/ UpdateLocalStoryStatusSet("o1")
    \/ UpdateLocalStoryStatusMiss("o1")
    \/ GetLocalStoriesCall("o1")
    \/ \E l \in ServerLists : SaveAllLocalStories("o2", l)

SpecCache == Init /\ [][NextCache]_vars

\* the same over a key-value store whose calls may reject
SpecCacheKv == InitKv /\ [][NextCache]_vars

\* upserts, status patches and reads of one caller, one after the other, over
\* a key-value store whose calls may reject; nothing replaces the list
NextUpsert ==
    \/ \E story \in CacheStories : SaveLocalStoryMetadataGet("o1", story)
    \/ SaveLocalStoryMetadataSet("o1")
    \/ \E id \in OldIds, status \in Statuses : UpdateLocalStoryStatusGet("o1", id, status)
    \/ UpdateLocalStoryStatusSet("o1")
    \/ UpdateLocalStoryStatusMiss("o1")
    \/ GetLocalStoriesCall("o1")

SpecUpsertKv == InitKv /\ [][NextUpsert]_vars

\* one invocation of executeApiCall or of apiCallWithTokenRefresh
NextWrap ==
    \/ \E retry \in BOOLEAN : WrapCall("executeApiCall", retry, TRUE, TRUE)
    \/ \E hasRefresh \in BOOLEAN, show \in BOOLEAN :
          WrapCall("apiCallWithTokenRefresh", TRUE, hasRefresh, show)
    \/ Call1Resolves
    \/ \E e \in ApiErrors : Call1Throws(e)
    \/ \E ok \in BOOLEAN : RefreshSettles(ok)
    \/ \E ok \in BOOLEAN : Refresh2Settles(ok)
    \/ Call2Resolves
    \/ Call2Throws
    \/ AlertPress

SpecWrap == Init /\ [][NextWrap]_vars

\* checkTokenStatus called at any time, one call after the other
NextToken ==
    \/ \E hasRefresh \in BOOLEAN, show \in BOOLEAN : UseTokenManager(hasRefresh, show)
    \/ Tick
    \/ CheckTokenStatus
    \/ \E valid \in BOOLEAN : VerifySettles(valid)
    \/ \E ok \in BOOLEAN : TokenRefreshSettles(ok)
    \/ TokenAlertPress

SpecToken == Init /\ [][NextToken]_vars

\* app/story-player.tsx: a story arrives and is navigated and played
NextApp ==
    \/ \E n \in 1..MaxPlayerScenes : AppStoryLoaded(n)
    \/ PressNext
    \/ PressPrevious
    \/ \E index \in 0..(MaxPlayerScenes - 1) : SceneTap(index)
    \/ OnPlaybackStatusUpdate

SpecApp == Init /\ [][NextApp]_vars

\* StoryPlayerScreen: a story arrives and is navigated and played
NextPlayer ==
    \/ \E n \in 1..MaxPlayerScenes : PlStoryLoaded(n)
    \/ \E k \in 0..(MaxPlayerScenes - 1) : PlLoadSettles(k)
    \/ PlHandlePlayPause
    \/ PlHandleNext
    \/ PlHandlePrevious
    \/ \E index \in 0..(MaxPlayerScenes - 1) : PlSceneTap(index)
    \/ \E k \in 0..(MaxPlayerScenes - 1) : PlFinished(k)
    \/ \E k \in 0..(MaxPlayerScenes - 1) : PlCleanup(k)

SpecPlayer == Init /\ [][NextPlayer]_vars

\* ------------------------------------------------------------------- claims
\* the entries persisted under STORAGE_KEY
Cache == IF store.has THEN store.json ELSE <<>>
\* the positions of the cache that hold id
At(id) == {i \in 1..Len(Cache) : Cache[i].id = id}
Settled(j) == pc[j] \in {"resolved", "rejected"}

\* C1: once a status response has reported 'failed', pollStoryCompletion
\* issues no further checkStoryStatus request for that job.
C1_FailedIsTerminal ==
    [][last["s1"] = "failed" => reqs'["s1"] = reqs["s1"]]_vars

\* C1, story player screen: once a response to the interval callback has
\* reported 'failed', the callback issues no further fetchStoryStatus.
C1_ScreenFailedIsTerminal ==
    [][scrSawFailed => scrFetches' <= scrFetches]_vars

\* C2: when every status response was 'processing', pollStoryCompletion has
\* made exactly 20 requests when it settles, it rejects with the timed-out
\* error, and the cache entry of the job has status 'failed'.
C2_AllProcessingTimesOut ==
    (Settled("s1") /\ last["s1"] = "processing" /\ onlyProc["s1"])
        => /\ reqs["s1"] = maxAttempts
           /\ pc["s1"] = "rejected"
           /\ err["s1"] = "timeout"
           /\ At("s1") # {}
           /\ \A i \in At("s1") : Cache[i].status = "failed"

C2_Witness ==
    /\ pc["s1"] = "rejected" /\ err["s1"] = "timeout"
    /\ last["s1"] = "processing" /\ onlyProc["s1"]
    /\ reqs["s1"] = maxAttempts

\* C3: whatever the responses, one pollStoryCompletion issues at most 20
\* status requests, eventually resolves or rejects, and once settled stays
\* settled with that outcome.
C3_PollSettles ==
    /\ [](reqs["s1"] <= maxAttempts)
    /\ [][Settled("s1") => /\ pc'["s1"] = pc["s1"]
                           /\ err'["s1"] = err["s1"]
                           /\ reqs'["s1"] = reqs["s1"]]_vars
    /\ (pc["s1"] = "poll_req" ~> Settled("s1"))

C3_Witness ==
    /\ pc["s1"] = "rejected" /\ err["s1"] = "transport"
    /\ reqs["s1"] = maxAttempts /\ ~onlyProc["s1"]

\* C4: after generateStory succeeded and the poll loop saw processing,
\* processing, completed, the cache holds exactly one entry with the job's id
\* and that entry has status 'completed'.
C4_OneCompletedEntry ==
    (pc["s1"] = "resolved" /\ reqs["s1"] = 3 /\ onlyProc["s1"]
        /\ last["s1"] = "completed")
        => /\ Cardinality(At("s1")) = 1
           /\ \A i \in At("s1") : Cache[i].status = "completed"

C4_Witness ==
    /\ pc["s1"] = "resolved" /\ reqs["s1"] = 3 /\ onlyProc["s1"]
    /\ last["s1"] = "completed" /\ Len(Cache) = 2

\* C5: once the owning view is unmounted, the poll loop writes nothing to the
\* cache, updates no state and issues no request from attempt 3 on.
C5_CancelledLoopIsSilent ==
    [][(cancelled["s1"] /\ attempt["s1"] >= 3)
        => /\ store' = store
           /\ generationProgress' = generationProgress
           /\ reqs'["s1"] = reqs["s1"]]_vars

\* C5, story player screen: once the screen is unmounted, no response
\* changes the story state and no request is issued.
C5_ScreenUnmountedIsSilent ==
    [][~scrMounted => (scrStory' = scrStory /\ scrFetches' <= scrFetches)]_vars

\* C6: a successful status response whose story has no scenes makes
\* pollStoryCompletion reject, and the cache entry becomes 'failed', never
\* 'completed'.
C6_EmptyScenesIsFailure ==
    (Settled("s1") /\ last["s1"] = "completed" /\ retScenes["s1"] = 0)
        => /\ pc["s1"] = "rejected"
           /\ \A i \in At("s1") : Cache[i].status = "failed"

\* C7: when the list request of getUserStories fails, no step of that call
\* changes the persisted cache, and the call returns exactly the entries the
\* cache holds, so a non-empty list whenever the cache is non-empty.
C7_FallbackReturnsCache ==
    [][\A t \in Loaders :
          (lpath'[t] = "failed" /\ lpc'[t] # lpc[t])
             => /\ store' = store
                /\ lpc'[t] = "returned"
                      => /\ lresult'[t] = Cache
                         /\ (Len(Cache) > 0 => Len(lresult'[t]) > 0)]_vars

C7_Witness ==
    /\ lpc["l2"] = "returned" /\ lpath["l2"] = "failed"
    /\ Len(lresult["l2"]) = 2

\* C8: a getLocalStories that reads while a saveAllLocalStories(new) is
\* pending or done returns the complete old list or the complete new list.
C8_ReplaceAllAtomic ==
    [][(lpc["l2"] = "fb_read" /\ lpc'["l2"] = "returned" /\ lpath["l1"] = "stories")
          => lresult'["l2"] \in {lold["l1"], JsonParse(JsonStringify(llist["l1"]))}]_vars

C8_Witness ==
    /\ lpc["l2"] = "returned" /\ lrace["l2"]
    /\ lpc["l1"] = "all_write"
    /\ lresult["l2"] = lold["l1"]
    /\ Len(lold["l1"]) = 1 /\ Len(llist["l1"]) = 2

\* C9: when the first status request of a job is about to be issued, the
\* cache holds the placeholder of the job: status 'processing', title
\* 'Generating...', description the submitted prompt.
C9_PlaceholderBeforePoll ==
    (pc["s1"] = "poll_req" /\ reqs["s1"] = 0)
        => \E i \in At("s1") :
              /\ Cache[i].status = "processing"
              /\ Cache[i].title = "Generating..."
              /\ Cache[i].description = prompt["s1"]

C9_Witness ==
    /\ pc["s1"] = "poll_req" /\ reqs["s1"] = 0 /\ prompt["s1"] = "a cat"
    /\ gresp["s1"].success /\ gresp["s1"].hasId

\* C10: when the generate request fails (it throws, or its body has
\* success=false or no story_id), generateStory rejects, no step changes the
\* cache, and no status request is ever issued.
GenerateFailed(r) == r.kind = "error" \/ (r.kind = "body" /\ ~(r.success /\ r.hasId))

C10_FailedGenerateLeavesCache ==
    /\ [](GenerateFailed(gresp["s1"])
            => pc["s1"] = "rejected" /\ reqs["s1"] = 0 /\ attempt["s1"] = 0)
    /\ [][GenerateFailed(gresp'["s1"]) => store' = store]_vars

C10_Witness ==
    /\ gresp["s1"].kind = "body" /\ gresp["s1"].success /\ ~gresp["s1"].hasId
    /\ pc["s1"] = "rejected" /\ store.has

\* two stories are the same LocalStoryMetadata; a thumbnail that is
\* undefined and a thumbnail key that is absent are the same
SameStory(a, b) ==
    /\ a.id = b.id /\ a.title = b.title /\ a.description = b.description
    /\ a.generatedTime = b.generatedTime /\ a.duration = b.duration
    /\ a.status = b.status /\ Thumb(a) = Thumb(b)

C12_SaveIsUpsert ==
    [][(opc["o1"] = "save_set" /\ opc'["o1"] = "idle"
            /\ GetLocalStories(TRUE) = ostories["o1"])
        => LET old == Cache
               new == IF store'.has THEN store'.json ELSE <<>>
               story == ostory["o1"]
           IN  IF \E i \in 1..Len(old) : old[i].id = story.id
               THEN /\ Len(new) = Len(old)
                    /\ \A i \in 1..Len(old) :
                          IF old[i].id = story.id
                          THEN SameStory(new[i], story)
                          ELSE new[i] = old[i]
               ELSE /\ Len(new) = Len(old) + 1
                    /\ SameStory(new[1], story)
                    /\ \A i \in 1..Len(old) : new[i + 1] = old[i]]_vars

C12_Witness ==
    /\ opc["o1"] = "idle"
    /\ ostory["o1"].id = "s9" /\ ostory["o1"].title = "Generating..."
    /\ Len(ostories["o1"]) = 2 /\ ostories["o1"][2].id = "s9"
    /\ ostories["o1"][2].title = "server title"
    /\ Len(Cache) = 2 /\ Cache[2].id = "s9" /\ Cache[2].title = "Generating..."
    /\ Cache[1] = ostories["o1"][1]

\* C13: an updateLocalStoryStatus(id, status) that nothing interferes with
\* changes the status of the entry with that id and nothing else; it takes
\* the no-hit path exactly when no entry has the id, and then no step of the
\* call changes the persisted cache.
C13_PatchChangesStatusOnly ==
    /\ [][(opc["o1"] = "upd_set" /\ opc'["o1"] = "idle"
              /\ GetLocalStories(TRUE) = ostories["o1"])
          => LET old == Cache
                 new == IF store'.has THEN store'.json ELSE <<>>
             IN  /\ Len(new) = Len(old)
                 /\ \A i \in 1..Len(old) :
                       IF old[i].id = oid["o1"]
                       THEN new[i] = [old[i] EXCEPT !.status = ostatus["o1"]]
                       ELSE new[i] = old[i]]_vars
    /\ [][(opc["o1"] = "idle" /\ opc'["o1"] \in {"upd_set", "upd_miss"})
          => /\ store' = store
             /\ (opc'["o1"] = "upd_miss")
                   = (\A i \in 1..Len(Cache) : Cache[i].id # oid'["o1"])]_vars
    /\ [][(opc["o1"] = "upd_miss" /\ opc'["o1"] = "idle") => store' = store]_vars

C13_Witness ==
    /\ opc["o1"] = "idle"
    /\ oid["o1"] = "s9" /\ ostatus["o1"] = "failed"
    /\ Len(ostories["o1"]) = 2 /\ ostories["o1"][2].id = "s9"
    /\ ostories["o1"][2].status = "processing"
    /\ Len(Cache) = 2 /\ Cache[2].id = "s9" /\ Cache[2].status = "failed"
    /\ Cache[1].status = "completed"

\* C14: for one story id at most one status request is in flight: the story
\* player's interval callback issues fetchStoryStatus only when its previous
\* request has settled.
C14_OneRequestInFlight ==
    scrFetches <= 1

\* C15: a transport error on an attempt below 20 leaves the cache as it is
\* and the loop sleeps and goes on to the next attempt; when the loop settles
\* on a transport error it has made 20 requests, it rejects, and the cache
\* entry of the job has status 'failed'.
C15_TransportErrorAbsorbed ==
    /\ [][(pc["s1"] = "poll_wait" /\ pc'["s1"] # "poll_wait" /\ last'["s1"] = "error")
          => /\ store' = store
             /\ attempt'["s1"] = attempt["s1"]
             /\ pc'["s1"] = IF attempt["s1"] < maxAttempts THEN "sleep" ELSE "upd_read"]_vars
    /\ [][(pc["s1"] = "sleep" /\ pc'["s1"] # "sleep" /\ last["s1"] = "error")
          => /\ store' = store
             /\ attempt'["s1"] = attempt["s1"] + 1
             /\ pc'["s1"] = "poll_req"]_vars
    /\ []((Settled("s1") /\ last["s1"] = "error")
          => /\ pc["s1"] = "rejected"
             /\ reqs["s1"] = maxAttempts
             /\ At("s1") # {}
             /\ \A i \in At("s1") : Cache[i].status = "failed")

C15_Witness ==
    /\ pc["s1"] = "resolved" /\ err["s1"] = "transport"
    /\ reqs["s1"] = 2 /\ last["s1"] = "completed"
    /\ \E i \in At("s1") : Cache[i].status = "completed"

\* C16: one invocation of a wrapper calls refreshAuthToken at most once and
\* apiCall at most twice, and when the retried call has failed the wrapper
\* rejects and sign-out is triggered: the session alert is up or signOut()
\* has been called.
C16_RefreshOnceRetryOnce ==
    /\ wrefreshes <= 1
    /\ wcalls <= 2
    /\ wretryFailed => (wpc = "rejected" /\ (walert \/ wsignOut))

\* C16, executeApiCall alone
C16_ExecuteApiCall ==
    wrapper = "executeApiCall" => C16_RefreshOnceRetryOnce

\* C17: the status request that follows a request the server rejected with
\* 401 is the retry of the same tick: the attempt counter is not advanced
\* for it.
C17_AuthErrorRetriesSameTick ==
    [][(pc["s1"] = "sleep" /\ last["s1"] = "error" /\ err["s1"] = "unauthorized"
            /\ pc'["s1"] = "poll_req")
        => attempt'["s1"] = attempt["s1"]]_vars

\* C18: two verify-token requests are never sent within 30 seconds of each
\* other, whatever the results of the verifications.
C18_VerifyDebounced ==
    prevTrip >= 0 => lastTrip - prevTrip >= debounceMs

\* C19: in StoryPlayerScreen, once the story has scenes, the scene pointer
\* stays within 0 .. story.scenes.length - 1 after every next, previous,
\* scene tap and finished callback.
C19_PointerInBounds ==
    plScenes > 0 => (0 <= currentScene /\ currentScene <= plScenes - 1)

\* C19 in app/story-player.tsx: the pointer stays within 0 .. scenes.length - 1,
\* and a press of next or previous moves it by one, or not at all at the
\* boundary.
C19_AppPointerInBounds ==
    /\ scenes > 0 => (0 <= currentSceneIndex /\ currentSceneIndex <= scenes - 1)
    /\ lastEvent = "next" =>
         currentSceneIndex = IF prevIndex < scenes - 1 THEN prevIndex + 1 ELSE prevIndex
    /\ lastEvent = "previous" =>
         currentSceneIndex = IF prevIndex > 0 THEN prevIndex - 1 ELSE prevIndex

\* C20: in app/story-player.tsx, after the Sound has reported didJustFinish
\* with the pointer at i, the pointer is i + 1 and the Sound is the one of
\* scene i + 1 when i is not the last index, and the pointer is still i when
\* it is.
C20_FinishedAdvances ==
    lastEvent = "finished" =>
        IF prevIndex < scenes - 1
        THEN currentSceneIndex = prevIndex + 1 /\ sound.scene = prevIndex + 1
        ELSE currentSceneIndex = prevIndex

\* C20 in StoryPlayerScreen: after the Sound of the scene the pointer is at
\* has reported didJustFinish, the pointer is one further and that scene's
\* loadAudio is under way, or the pointer has stayed at the last index.
C20_PlayerFinishedAdvances ==
    (plEvent = "finished" /\ plFin = plPrev) =>
        IF plPrev < plScenes - 1
        THEN currentScene = plPrev + 1 /\ (plPrev + 1) \in plLoading
        ELSE currentScene = plPrev

\* C21: no operation of the local cache rejects to its caller, whether the
\* AsyncStorage calls it makes resolve or reject.
C21_CacheNeverRejects ==
    \A c \in Callers : oresult[c] # "rejected"

\* an operation of o1 has returned although one of its AsyncStorage calls
\* rejected, and so has the saveAllLocalStories of o2
C21_Witness ==
    /\ opc["o1"] = "idle" /\ okv["o1"] /\ oresult["o1"] = "resolved"
    /\ okv["o2"] /\ oresult["o2"] = "resolved"

\* C22: when two generations with distinct job ids have both run to their
\* completed story over a working store, the cache holds an entry for each
\* of the two ids, and each entry is the completed one its own job wrote.
C22_BothJobsTracked ==
    (\A j \in Jobs : pc[j] = "resolved")
        => \A j \in Jobs : /\ At(j) # {}
                           /\ \A i \in At(j) : Cache[i].status = "completed"

\* C23: once the cache entry of the job has status 'completed' or 'failed',
\* no step of the job's poll loop gives it another status.
C23_StatusForwardOnly ==
    [][\A i \in At("s1") :
          Cache[i].status \in {"completed", "failed"}
             => \A k \in At("s1")' : Cache'[k].status = Cache[i].status]_vars

\* C24: no step of saveLocalStoryMetadata or of updateLocalStoryStatus removes
\* an entry from the cache: an id the cache holds is still held after the
\* step, also when a call of the key-value store has rejected.
C24_UpsertRemovesNothing ==
    [][\A i \in 1..Len(Cache) : \E k \in 1..Len(Cache') : Cache'[k].id = Cache[i].id]_vars

\* C25: when a status request of the poll loop has settled and the loop has
\* gone on from it, onProgress has been called exactly once since that
\* request was made.
C25_ProgressEveryTick ==
    (reqs["s1"] > 0 /\ pc["s1"] \notin {"poll_req", "poll_wait"})
        => onProgressCalls["s1"] = 1

\* C25 as amended: after a tick whose response said the story is still
\* processing, onProgress has been called exactly once since the request, with
\* that status; after a tick that ended in a transport error, 'completed' or
\* 'failed' it has not been called.
C25_ProgressWhenProcessing ==
    (reqs["s1"] > 0 /\ pc["s1"] \notin {"poll_req", "poll_wait"})
        => /\ onProgressCalls["s1"] = (IF last["s1"] = "processing" THEN 1 ELSE 0)
           /\ (last["s1"] = "processing" /\ pc["s1"] = "sleep")
                 => generationProgress = "processing"

\* a tick that ended in 'processing' after one that did not
C25_Witness ==
    /\ reqs["s1"] = 2 /\ pc["s1"] = "sleep" /\ last["s1"] = "processing"
    /\ ~onlyProc["s1"] /\ onProgressCalls["s1"] = 1

\* C26: the apiCall that executeApiCall retries after a token refresh sends
\* the token the refresh has issued.
C26_RetryUsesNewToken ==
    (wrapper = "executeApiCall" /\ wcalls = 2) => wsent = authToken

\* C27: when the list request of a refreshStories fails, the step that settles
\* the refresh leaves state.error as it was, raises no alert, and does not
\* leave state.stories empty if it held stories before.
C27_FailedRefreshSilent ==
    [][\A t \in Loaders :
          (lthunk[t] = "refreshStories" /\ lthunk'[t] = NoThunk /\ lpath[t] = "failed")
             => /\ stateError' = stateError
                /\ ~refreshAlert'
                /\ (Len(stateStories) > 0 => Len(stateStories') > 0)]_vars

\* C28: at most one scene audio is loaded at any time: no state of the
\* StoryPlayerScreen holds two Sounds that were created and not unloaded.
C28_AtMostOneLoaded == Cardinality(plLoaded) <= 1

\* what the AuthProvider holds and has persisted is all null
AllNull ==
    /\ token = Null /\ refreshToken = Null /\ user = Null
    /\ stored = NoAuth

\* C29: once a signOut has completed, and once a refresh has failed, token,
\* refreshToken and user are null in memory and in the store, and stay null
\* until the next successful signIn.
C29_SignedOutStaysNull == (signedOut \/ refreshFailed) => AllNull

\* C30: in the auth slice, isAuthenticated = true implies that user and
\* firebase_token are both non-null.
C30_AuthenticatedHasUserAndToken ==
    isAuthenticated => (authUser # Null /\ firebase_token # Null)

====
